---- MODULE Spec2Model ----
(***************************************************************************)
(* A model of ironoxide's envelope crypto (src/crypto/aes.rs), of its      *)
(* identifier validation (src/internal/mod.rs, src/internal/user_api.rs)   *)
(* and of the user and device operations of src/internal/user_api.rs, run  *)
(* by clients against the IronCore service.                                *)
(*                                                                         *)
(* Byte strings are sequences over 0..255 and keep the lengths of the      *)
(* source (32-byte salt and key, 12-byte IV, 16-byte tag).  Strings are    *)
(* sequences of Unicode code points; their len() is the UTF-8 byte count.  *)
(***************************************************************************)
EXTENDS Integers, Sequences, FiniteSets, TLC

VARIABLES
    emk,      \* the EncryptedMasterKey a caller holds, or NoValue
    origin,   \* the password and master key emk was sealed from, and whether
              \* a bit of it was changed since
    aev,      \* the AesEncryptedValue a caller holds, or NoValue
    aevSrc,   \* the plaintext and key aev was sealed from
    last,     \* the last call: its name, its arguments and what it returned
    backend,  \* what the IronCore service stores: the user's record, or NoValue
    calls,    \* for every client, the SDK call it is in: where the call is
              \* (which request it awaits), its locals and what it returned
    log       \* a history of the run: the updates the service accepted, the
              \* requests sent and the key pairs generated; for a caller that
              \* seals several values, its random source and what it sealed

vars == <<emk, origin, aev, aevSrc, last, backend, calls, log>>

(***************************************************************************)
(* Bounds of the model                                                     *)
(***************************************************************************)
\* how many distinct byte patterns the random source, the keys and the
\* plaintexts are drawn from
NumSeeds == 2
\* longest password, in bytes
MaxPwLen == 1
\* longest plaintext handed to encrypt, in bytes
MaxPlainLen == 3
\* slices handed to a decoder are at most this much longer or shorter than
\* the size the decoder looks for
SizeSlack == 2
\* most whitespace characters put before and after an identifier or a name
MaxPad == 1
\* short identifiers and names are at most this many characters long
MaxShortLen == 3
MaxJwtLen == 4
\* most devices in an answer to device_list
MaxDevices == 3
\* most user ids handed to get_user_keys, and most users in an answer to
\* user_key_list
MaxUsers == 2
MaxSeals == 3
\* how many scalars there are: private keys and augmentation factors are
\* integers modulo this
NumScalars == 4

(***************************************************************************)
(* Program constants                                                       *)
(***************************************************************************)
PBKDF2_SALT_LEN == 32
AES_GCM_TAG_LEN == 16
AES_IV_LEN == 12
AES_KEY_LEN == 32
ENCRYPTED_KEY_AND_GCM_TAG_LEN == AES_KEY_LEN + AES_GCM_TAG_LEN
SIZE_BYTES == PBKDF2_SALT_LEN + AES_IV_LEN + ENCRYPTED_KEY_AND_GCM_TAG_LEN
NAME_AND_ID_MAX_LEN == 100

(***************************************************************************)
(* Values                                                                  *)
(***************************************************************************)
NoValue == [none |-> TRUE]

Ok(v) == [ok |-> TRUE, val |-> v]
Err(e) == [ok |-> FALSE, err |-> e]

\* n bytes of pattern s; pattern 0 is all zeroes
Pattern(n, s) == [i \in 1..n |-> (s * (36 + i)) % 256] \o <<>>

Seeds == 0..(NumSeeds - 1)
Keys == {Pattern(AES_KEY_LEN, s) : s \in Seeds}
\* passwords as their UTF-8 bytes: "", "p", "pp", ... and "q"
Passwords == {[i \in 1..n |-> 112] \o <<>> : n \in 0..MaxPwLen} \cup {<<113>>}
Plaintexts == {Pattern(n, s + 1) : n \in 0..MaxPlainLen, s \in Seeds}

\* A random source: stream seed has handed out its first pos bytes.  Stream
\* 0 is the source that only ever writes zeroes.
Rngs == {[seed |-> s, pos |-> 0] : s \in Seeds}
fill_bytes(rng, n) == [i \in 1..n |-> (rng.seed * (36 + rng.pos + i)) % 256] \o <<>>
rng_after(rng, n) == [rng EXCEPT !.pos = @ + n]

\* b with bit k (0 the lowest) changed
FlipBit(b, k) == IF (b \div (2 ^ k)) % 2 = 1 THEN b - 2 ^ k ELSE b + 2 ^ k

(***************************************************************************)
(* ring's primitives.  The source calls them; the model stands in for them *)
(* with functions of the same shape: a key derivation that is a function   *)
(* of password and salt, a stream cipher keyed by key and IV, and a 16     *)
(* byte tag over key, IV and ciphertext that every changed ciphertext byte *)
(* and every changed key changes.                                          *)
(***************************************************************************)
RECURSIVE PwHash(_, _)
PwHash(pw, n) == IF n = 0 THEN Len(pw) ELSE (PwHash(pw, n - 1) * 31 + pw[n]) % 256

pbkdf2_derive(salt, password) ==
    LET h == PwHash(password, Len(password))
    IN  [i \in 1..AES_KEY_LEN |-> (salt[i] + h * (2 * i + 1)) % 256] \o <<>>

KeyStream(key, iv, i) ==
    (key[((i - 1) % AES_KEY_LEN) + 1] + iv[((i - 1) % AES_IV_LEN) + 1] + i) % 256

RECURSIVE WeightedSum(_, _)
WeightedSum(body, n) ==
    IF n = 0 THEN 0
    ELSE (WeightedSum(body, n - 1) + body[n] * (2 * n + 1)) % 256

GcmTag(key, iv, body) ==
    LET sum == WeightedSum(body, Len(body))
    IN  [j \in 1..AES_GCM_TAG_LEN |->
            (key[j] + 2 * key[j + AES_GCM_TAG_LEN] + iv[((j - 1) % AES_IV_LEN) + 1]
                + sum * (2 * j + 1)) % 256] \o <<>>

\* aead::seal_in_place on a buffer holding the plaintext and room for the tag:
\* the buffer becomes ciphertext followed by tag
seal_in_place(key, iv, plaintext) ==
    LET body == [i \in 1..Len(plaintext) |->
                    (plaintext[i] + KeyStream(key, iv, i)) % 256] \o <<>>
    IN  body \o GcmTag(key, iv, body)

\* aead::open_in_place with in_prefix_len 0: the tag is checked first and
\* only then is the plaintext released
open_in_place(key, iv, in_out) ==
    IF Len(in_out) < AES_GCM_TAG_LEN THEN Err("Unspecified")
    ELSE LET n == Len(in_out) - AES_GCM_TAG_LEN
             body == SubSeq(in_out, 1, n)
             tag == SubSeq(in_out, n + 1, Len(in_out))
         IN  IF tag # GcmTag(key, iv, body) THEN Err("Unspecified")
             ELSE Ok([i \in 1..n |-> (body[i] - KeyStream(key, iv, i)) % 256] \o <<>>)

(***************************************************************************)
(* src/crypto/aes.rs                                                       *)
(***************************************************************************)
EncryptedMasterKey_new(pbkdf2_salt, aes_iv, encrypted_key) ==
    [pbkdf2_salt |-> pbkdf2_salt, aes_iv |-> aes_iv, encrypted_key |-> encrypted_key]

\* new_from_slice, had it compared with >= and cut the slice to size
new_from_slice_truncating(bytes) ==
    IF Len(bytes) >= SIZE_BYTES
    THEN Ok(EncryptedMasterKey_new(
                SubSeq(bytes, 1, PBKDF2_SALT_LEN),
                SubSeq(bytes, PBKDF2_SALT_LEN + 1, PBKDF2_SALT_LEN + AES_IV_LEN),
                SubSeq(bytes, PBKDF2_SALT_LEN + AES_IV_LEN + 1, SIZE_BYTES)))
    ELSE Err([kind |-> "WrongSizeError", actual_size |-> Len(bytes),
              expected_size |-> SIZE_BYTES])

new_from_slice(bytes) ==
    IF Len(bytes) = SIZE_BYTES
    THEN Ok(EncryptedMasterKey_new(
                SubSeq(bytes, 1, PBKDF2_SALT_LEN),
                SubSeq(bytes, PBKDF2_SALT_LEN + 1, PBKDF2_SALT_LEN + AES_IV_LEN),
                SubSeq(bytes, PBKDF2_SALT_LEN + AES_IV_LEN + 1, Len(bytes))))
    ELSE Err([kind |-> "WrongSizeError", actual_size |-> Len(bytes),
              expected_size |-> SIZE_BYTES])

\* bytes(), had it written the IV in front of the salt
EncryptedMasterKey_bytes_iv_first(self) ==
    self.aes_iv \o self.pbkdf2_salt \o self.encrypted_key

EncryptedMasterKey_bytes(self) ==
    self.pbkdf2_salt \o self.aes_iv \o self.encrypted_key

AesEncryptedValue(aes_iv, ciphertext) == [aes_iv |-> aes_iv, ciphertext |-> ciphertext]

AesEncryptedValue_bytes(self) == self.aes_iv \o self.ciphertext

\* try_from, had it compared with < and so taken a slice of IV, tag and nothing
AesEncryptedValue_try_from_lt(bytes) ==
    IF Len(bytes) < AES_IV_LEN + AES_GCM_TAG_LEN + 1
    THEN Err([kind |-> "AesEncryptedDocSizeError"])
    ELSE Ok([aes_iv |-> SubSeq(bytes, 1, AES_IV_LEN),
             ciphertext |-> SubSeq(bytes, AES_IV_LEN + 1, Len(bytes))])

AesEncryptedValue_try_from(bytes) ==
    IF Len(bytes) <= AES_IV_LEN + AES_GCM_TAG_LEN + 1
    THEN Err([kind |-> "AesEncryptedDocSizeError"])
    ELSE Ok(AesEncryptedValue(SubSeq(bytes, 1, AES_IV_LEN),
                              SubSeq(bytes, AES_IV_LEN + 1, Len(bytes))))

\* derive_key_from_password, had it left the password out of the derivation
derive_key_from_salt_only(password, salt) == pbkdf2_derive(salt, <<>>)

derive_key_from_password(password, salt) == pbkdf2_derive(salt, password)

\* encrypt, had it sealed under the IV as it is before fill_bytes writes it
encrypt_unfilled_iv(rng, plaintext, key) ==
    LET iv == Pattern(AES_IV_LEN, 0)
    IN  Ok(AesEncryptedValue(iv, seal_in_place(key, iv, plaintext)))

\* SealingKey::new and seal_in_place fail for a key of the wrong length and
\* for an input beyond AES-GCM's limit; a [u8; 32] key and the plaintexts of
\* the model are neither
encrypt(rng, plaintext, key) ==
    LET iv == fill_bytes(rng, AES_IV_LEN)
    IN  Ok(AesEncryptedValue(iv, seal_in_place(key, iv, plaintext)))

\* decrypt, had it handed back the buffer in front of the tag whether or not
\* the tag verified
decrypt_unverified(encrypted_doc, key) ==
    LET c == encrypted_doc.ciphertext
        out == open_in_place(key, encrypted_doc.aes_iv, c)
    IN  IF out.ok \/ Len(c) < AES_GCM_TAG_LEN THEN out
        ELSE Ok(SubSeq(c, 1, Len(c) - AES_GCM_TAG_LEN))

\* decrypt, had it returned the whole buffer, the tag included
decrypt_with_tag(encrypted_doc, key) ==
    LET c == encrypted_doc.ciphertext
        out == open_in_place(key, encrypted_doc.aes_iv, c)
    IN  IF ~out.ok THEN out
        ELSE Ok(out.val \o SubSeq(c, Len(c) - AES_GCM_TAG_LEN + 1, Len(c)))

decrypt(encrypted_doc, key) ==
    open_in_place(key, encrypted_doc.aes_iv, encrypted_doc.ciphertext)

\* decrypt borrows encrypted_doc mutably: afterwards its ciphertext holds the
\* plaintext in front of the tag, or zeroes there when the tag did not verify
decrypt_leaves(encrypted_doc, key) ==
    LET out == decrypt(encrypted_doc, key)
        c == encrypted_doc.ciphertext
        n == IF Len(c) < AES_GCM_TAG_LEN THEN 0 ELSE Len(c) - AES_GCM_TAG_LEN
    IN  [encrypted_doc EXCEPT !.ciphertext =
            IF Len(c) < AES_GCM_TAG_LEN THEN c
            ELSE (IF out.ok THEN out.val ELSE [i \in 1..n |-> 0] \o <<>>)
                 \o SubSeq(c, n + 1, Len(c))]

\* the salt is drawn first, the IV (inside encrypt) after it
encrypt_user_master_key(rng, password, user_master_key) ==
    LET salt == fill_bytes(rng, PBKDF2_SALT_LEN)
        derived_key == derive_key_from_password(password, salt)
        encrypted_key == encrypt(rng_after(rng, PBKDF2_SALT_LEN), user_master_key,
                                 derived_key)
    IN  IF ~encrypted_key.ok THEN encrypted_key
        ELSE Ok([pbkdf2_salt |-> salt,
                 aes_iv |-> encrypted_key.val.aes_iv,
                 encrypted_key |-> encrypted_key.val.ciphertext])

\* decrypt_user_master_key, had it derived the key with a zeroed salt in place
\* of the stored one
decrypt_user_master_key_zero_salt(password, encrypted_master_key) ==
    LET derived_key == pbkdf2_derive([i \in 1..PBKDF2_SALT_LEN |-> 0] \o <<>>, password)
    IN  open_in_place(derived_key, encrypted_master_key.aes_iv,
                      encrypted_master_key.encrypted_key)

decrypt_user_master_key(password, encrypted_master_key) ==
    LET derived_key == derive_key_from_password(password, encrypted_master_key.pbkdf2_salt)
        encrypted_key == AesEncryptedValue(encrypted_master_key.aes_iv,
                                           encrypted_master_key.encrypted_key)
    IN  decrypt(encrypted_key, derived_key)

(***************************************************************************)
(* Callers of the master-key functions.  A caller seals a master key once  *)
(* and holds the EncryptedMasterKey; it may serialize the value, decode    *)
(* slices, and open the value with any password.  In storage or in transit *)
(* one bit of the held value's encrypted_key may change; what is opened    *)
(* afterwards is the changed value.                                        *)
(***************************************************************************)
\* the slices a caller hands to EncryptedMasterKey::new_from_slice
SliceLens == {0} \cup ((SIZE_BYTES - SizeSlack)..(SIZE_BYTES + SizeSlack))
Slices == {Pattern(n, s + 1) : n \in SliceLens, s \in Seeds}

InitMasterKey ==
    /\ emk = NoValue
    /\ origin = [kind |-> "none", tampered |-> FALSE]
    /\ aev = NoValue
    /\ aevSrc = [kind |-> "none"]
    /\ backend = NoValue
    /\ calls = NoValue
    /\ log = NoValue
    /\ last = [op |-> "none"]

EncryptUserMasterKey ==
    /\ emk = NoValue
    /\ \E rng \in Rngs, password \in Passwords, user_master_key \in Keys :
        LET out == encrypt_user_master_key(rng, password, user_master_key)
        IN  /\ out.ok
            /\ emk' = out.val
            /\ origin' = [kind |-> "sealed", password |-> password,
                          key |-> user_master_key, rng |-> rng, tampered |-> FALSE]
            /\ last' = [op |-> "encrypt_user_master_key", out |-> out]
    /\ UNCHANGED <<aev, aevSrc, backend, calls, log>>

DecryptUserMasterKey ==
    /\ emk # NoValue
    /\ \E password \in Passwords :
        last' = [op |-> "decrypt_user_master_key", password |-> password,
                 out |-> decrypt_user_master_key(password, emk)]
    /\ UNCHANGED <<emk, origin, aev, aevSrc, backend, calls, log>>

\* one bit of the held value's encrypted_key changes
FlipBitOfEncryptedKey ==
    /\ emk # NoValue
    /\ ~origin.tampered
    /\ \E pos \in 1..ENCRYPTED_KEY_AND_GCM_TAG_LEN, bit \in 0..7 :
        /\ emk' = [emk EXCEPT !.encrypted_key[pos] = FlipBit(@, bit)]
        /\ origin' = [origin EXCEPT !.tampered = TRUE]
        /\ last' = [op |-> "flip", pos |-> pos, bit |-> bit]
    /\ UNCHANGED <<aev, aevSrc, backend, calls, log>>

\* bytes() of the value as sealed, or of the value new_from_slice just returned
Bytes ==
    /\ \/ /\ emk # NoValue
          /\ ~origin.tampered
          /\ last' = [op |-> "bytes", self |-> emk, from |-> <<>>,
                      out |-> EncryptedMasterKey_bytes(emk)]
       \/ /\ last.op = "new_from_slice"
          /\ last.out.ok
          /\ last' = [op |-> "bytes", self |-> last.out.val, from |-> last.bytes,
                      out |-> EncryptedMasterKey_bytes(last.out.val)]
    /\ UNCHANGED <<emk, origin, aev, aevSrc, backend, calls, log>>

\* decode a slice: any of Slices, or the bytes() the last call returned
NewFromSlice ==
    /\ ~origin.tampered
    /\ \E bytes \in Slices \cup (IF last.op = "bytes" THEN {last.out} ELSE {}) :
        last' = [op |-> "new_from_slice", bytes |-> bytes,
                 of |-> IF last.op = "bytes" /\ bytes = last.out
                        THEN last.self ELSE NoValue,
                 out |-> new_from_slice(bytes)]
    /\ UNCHANGED <<emk, origin, aev, aevSrc, backend, calls, log>>

NextMasterKey ==
    \/ EncryptUserMasterKey
    \/ DecryptUserMasterKey
    \/ FlipBitOfEncryptedKey
    \/ Bytes
    \/ NewFromSlice

SpecMasterKey == InitMasterKey /\ [][NextMasterKey]_vars

(***************************************************************************)
(* Callers of encrypt, decrypt and the AesEncryptedValue codec             *)
(***************************************************************************)
\* the slices a caller hands to AesEncryptedValue::try_from
AevSliceLens ==
    {0} \cup ((AES_IV_LEN + AES_GCM_TAG_LEN + 1 - SizeSlack)
                ..(AES_IV_LEN + AES_GCM_TAG_LEN + 1 + SizeSlack))
AevSlices == {Pattern(n, s + 1) : n \in AevSliceLens, s \in Seeds}

InitAead ==
    /\ emk = NoValue
    /\ origin = [kind |-> "none", tampered |-> FALSE]
    /\ aev = NoValue
    /\ aevSrc = [kind |-> "none"]
    /\ backend = NoValue
    /\ calls = NoValue
    /\ log = NoValue
    /\ last = [op |-> "none"]

Encrypt ==
    /\ aev = NoValue
    /\ \E rng \in Rngs, plaintext \in Plaintexts, key \in Keys :
        LET out == encrypt(rng, plaintext, key)
        IN  /\ aev' = IF out.ok THEN out.val ELSE NoValue
            /\ aevSrc' = [kind |-> "sealed", plaintext |-> plaintext, key |-> key,
                          rng |-> rng, opened |-> FALSE]
            /\ last' = [op |-> "encrypt", out |-> out]
    /\ UNCHANGED <<emk, origin, backend, calls, log>>

\* first is whether this is the first decrypt of the value as encrypt returned it
Decrypt ==
    /\ aev # NoValue
    /\ \E key \in Keys :
        /\ last' = [op |-> "decrypt", key |-> key, first |-> ~aevSrc.opened,
                    out |-> decrypt(aev, key)]
        /\ aev' = decrypt_leaves(aev, key)
    /\ aevSrc' = [aevSrc EXCEPT !.opened = TRUE]
    /\ UNCHANGED <<emk, origin, backend, calls, log>>

AevBytes ==
    /\ aev # NoValue
    /\ ~aevSrc.opened
    /\ last' = [op |-> "aev_bytes", self |-> aev, out |-> AesEncryptedValue_bytes(aev)]
    /\ UNCHANGED <<emk, origin, aev, aevSrc, backend, calls, log>>

\* decode a slice: any of AevSlices, or the bytes() the last call returned
TryFrom ==
    /\ \E bytes \in AevSlices \cup (IF last.op = "aev_bytes" THEN {last.out} ELSE {}) :
        last' = [op |-> "try_from", bytes |-> bytes,
                 out |-> AesEncryptedValue_try_from(bytes)]
    /\ UNCHANGED <<emk, origin, aev, aevSrc, backend, calls, log>>

NextAead ==
    \/ Encrypt
    \/ Decrypt
    \/ AevBytes
    \/ TryFrom

SpecAead == InitAead /\ [][NextAead]_vars

(***************************************************************************)
(* Properties of the envelope crypto                                       *)
(***************************************************************************)
DecryptedSealed ==
    /\ last.op = "decrypt_user_master_key"
    /\ origin.kind = "sealed"

\* C1: opening a sealed master key, as sealed, with the password it was sealed
\* under succeeds and returns the master key, whatever salt and IV were drawn
C1_MasterKeyRoundTrip ==
    (DecryptedSealed /\ ~origin.tampered /\ last.password = origin.password)
        => (last.out.ok /\ last.out.val = origin.key)

C1_Witness ==
    /\ DecryptedSealed
    /\ ~origin.tampered
    /\ last.password = origin.password
    /\ Len(origin.password) > 0
    /\ origin.rng.seed # 0
    /\ last.out.ok
    /\ last.out.val = origin.key

\* C2: opening a sealed master key with any other password than the one it was
\* sealed under fails and returns no key
C2_WrongPasswordFails ==
    (DecryptedSealed /\ ~origin.tampered /\ last.password # origin.password)
        => (~last.out.ok /\ last.out.err = "Unspecified")

C2_Witness ==
    /\ DecryptedSealed
    /\ ~origin.tampered
    /\ last.password # origin.password
    /\ Len(last.password) > 0
    /\ Len(origin.password) > 0
    /\ ~last.out.ok

\* C3: after any one bit of the 48-byte encrypted_key changed, opening with
\* the right password fails, so it returns no plaintext at all
C3_TamperedFails ==
    (DecryptedSealed /\ origin.tampered /\ last.password = origin.password)
        => (~last.out.ok /\ last.out.err = "Unspecified")

C3_Witness ==
    /\ DecryptedSealed
    /\ origin.tampered
    /\ last.password = origin.password
    /\ ~last.out.ok

\* C4: bytes() is 92 bytes, 32 of salt, 12 of IV, 48 of encrypted key, in that
\* order; new_from_slice(x.bytes()) is x; new_from_slice(b).bytes() is b for a
\* slice b of 92 bytes
C4_BytesRoundTrip ==
    /\ last.op = "bytes" =>
        /\ Len(last.out) = 92
        /\ SubSeq(last.out, 1, 32) = last.self.pbkdf2_salt
        /\ SubSeq(last.out, 33, 44) = last.self.aes_iv
        /\ SubSeq(last.out, 45, 92) = last.self.encrypted_key
        /\ Len(last.from) = 92 => last.out = last.from
    /\ (last.op = "new_from_slice" /\ last.of # NoValue) =>
        /\ last.out.ok
        /\ last.out.val = last.of
    /\ (last.op = "new_from_slice" /\ Len(last.bytes) = 92) => last.out.ok

C4_Witness ==
    /\ last.op = "bytes"
    /\ Len(last.from) = 92
    /\ last.out = last.from
    /\ last.self.pbkdf2_salt # SubSeq(last.out, 33, 64)

\* C5: new_from_slice of a slice that is not 92 bytes long returns
\* WrongSizeError(actual length, 92) and no EncryptedMasterKey
C5_WrongSize ==
    (last.op = "new_from_slice" /\ Len(last.bytes) # 92) =>
        /\ ~last.out.ok
        /\ last.out.err = [kind |-> "WrongSizeError", actual_size |-> Len(last.bytes),
                           expected_size |-> 92]

C5_Witness ==
    /\ last.op = "new_from_slice"
    /\ Len(last.bytes) = 93
    /\ ~last.out.ok
    /\ last.out.err.actual_size = 93

\* C6: encrypt returns a 12-byte IV and a ciphertext 16 bytes longer than the
\* plaintext, of any length from 0; decrypt of it under the same key returns
\* the plaintext
C6_EncryptDecrypt ==
    /\ last.op = "encrypt" =>
        /\ last.out.ok
        /\ Len(last.out.val.aes_iv) = 12
        /\ Len(last.out.val.ciphertext) = Len(aevSrc.plaintext) + 16
    /\ (last.op = "decrypt" /\ last.first /\ last.key = aevSrc.key) =>
        /\ last.out.ok
        /\ last.out.val = aevSrc.plaintext

C6_Witness ==
    /\ last.op = "decrypt"
    /\ last.first
    /\ last.key = aevSrc.key
    /\ aevSrc.plaintext = <<>>
    /\ last.out.ok
    /\ last.out.val = <<>>

len_utf8(c) == IF c < 128 THEN 1 ELSE IF c < 2048 THEN 2 ELSE IF c < 65536 THEN 3 ELSE 4

RECURSIVE str_len_upto(_, _)
str_len_upto(s, n) == IF n = 0 THEN 0 ELSE str_len_upto(s, n - 1) + len_utf8(s[n])

str_len(s) == str_len_upto(s, Len(s))

is_whitespace(c) ==
    \/ c \in 9..13
    \/ c \in {32, 133, 160, 5760, 8232, 8233, 8239, 8287, 12288}
    \/ c \in 8192..8202

RECURSIVE first_non_ws(_, _)
first_non_ws(s, i) ==
    IF i > Len(s) THEN i ELSE IF is_whitespace(s[i]) THEN first_non_ws(s, i + 1) ELSE i

RECURSIVE last_non_ws(_, _)
last_non_ws(s, i) ==
    IF i < 1 THEN i ELSE IF is_whitespace(s[i]) THEN last_non_ws(s, i - 1) ELSE i

trim(s) == SubSeq(s, first_non_ws(s, 1), last_non_ws(s, Len(s)))

\* one character of [a-zA-Z0-9_.$#|@/:;=+'-]
id_regex_class(c) ==
    \/ c \in 97..122
    \/ c \in 65..90
    \/ c \in 48..57
    \/ c \in {95, 46, 36, 35, 124, 64, 47, 58, 59, 61, 43, 39, 45}

\* Regex::new("^[a-zA-Z0-9_.$#|@/:;=+'-]+$").is_match
id_regex_is_match(s) == Len(s) >= 1 /\ \A i \in 1..Len(s) : id_regex_class(s[i])

\* A formatted string is the sequence of its pieces, each a literal of the
\* format string or a value put into a {} of it
Lit(text) == [lit |-> text, str |-> <<>>]
Str(value) == [lit |-> "", str |-> value]

ValidationError(field_name, err) ==
    [kind |-> "ValidationError", field_name |-> field_name, err |-> err]

\* quick_error's display of IronOxideErr::ValidationError
Display(e) ==
    <<Lit("'"), Lit(e.field_name), Lit("' failed validation with the error '")>>
        \o e.err \o <<Lit("'")>>

\* validate_id, had it compared the length with >=
validate_id_ge(id, id_type) ==
    LET trimmed_id == trim(id)
    IN  IF trimmed_id = <<>> \/ str_len(trimmed_id) >= NAME_AND_ID_MAX_LEN
        THEN Err(ValidationError(id_type,
                <<Lit("'"), Str(trimmed_id), Lit("' must have length between 1 and 100")>>))
        ELSE IF ~id_regex_is_match(trimmed_id)
        THEN Err(ValidationError(id_type,
                <<Lit("'"), Str(trimmed_id), Lit("' contains invalid characters")>>))
        ELSE Ok(trimmed_id)

validate_id(id, id_type) ==
    LET trimmed_id == trim(id)
    IN  IF trimmed_id = <<>> \/ str_len(trimmed_id) > NAME_AND_ID_MAX_LEN
        THEN Err(ValidationError(id_type,
                <<Lit("'"), Str(trimmed_id), Lit("' must have length between 1 and 100")>>))
        ELSE IF ~id_regex_is_match(trimmed_id)
        THEN Err(ValidationError(id_type,
                <<Lit("'"), Str(trimmed_id), Lit("' contains invalid characters")>>))
        ELSE Ok(trimmed_id)

\* validate_name, had it returned the name as given once it passed
validate_name_untrimmed(name, name_type) ==
    LET trimmed_name == trim(name)
    IN  IF trim(trimmed_name) = <<>> \/ str_len(trimmed_name) > NAME_AND_ID_MAX_LEN
        THEN Err(ValidationError(name_type,
                <<Lit("'"), Str(trimmed_name), Lit("' must have length between 1 and 100")>>))
        ELSE Ok(name)

validate_name(name, name_type) ==
    LET trimmed_name == trim(name)
    IN  IF trim(trimmed_name) = <<>> \/ str_len(trimmed_name) > NAME_AND_ID_MAX_LEN
        THEN Err(ValidationError(name_type,
                <<Lit("'"), Str(trimmed_name), Lit("' must have length between 1 and 100")>>))
        ELSE Ok(trim(trimmed_name))

UserId_try_from(user_id) == validate_id(user_id, "user_id")

DeviceName_try_from(name) == validate_name(name, "device_name")

(***************************************************************************)
(* DeviceId (user_api.rs) and Jwt (mod.rs)                                  *)
(***************************************************************************)
\* A u64 is four 16-bit limbs, the most significant first.
Limb == 65536
u64_lt(a, b) ==
    \E i \in 1..4 : a[i] < b[i] /\ \A j \in 1..(i - 1) : a[j] = b[j]
u64_of(n) == <<0, 0, 0, n>>
\* i64::max_value() as u64
I64_MAX_AS_U64 == <<(Limb \div 2) - 1, Limb - 1, Limb - 1, Limb - 1>>
\* "{}" of a u64 in a formatted message, kept as the number
Num(n) == [lit |-> "u64", str |-> n]

DeviceId_try_from_unbounded(device_id) ==
    IF u64_lt(device_id, u64_of(1))
    THEN Err(ValidationError("device_id",
                             <<Lit("'"), Num(device_id),
                               Lit("' must be a number greater than 0")>>))
    ELSE Ok(device_id)
DeviceId_try_from(device_id) ==
    IF u64_lt(device_id, u64_of(1)) \/ u64_lt(I64_MAX_AS_U64, device_id)
    THEN Err(ValidationError("device_id",
                             <<Lit("'"), Num(device_id),
                               Lit("' must be a number greater than 0")>>))
    ELSE Ok(device_id)

is_ascii(s) == \A i \in 1..Len(s) : s[i] < 128
\* maybe_jwt.matches(".").count()
count_dots(s) == Cardinality({i \in 1..Len(s) : s[i] = 46})
Jwt_try_from_at_least_two(maybe_jwt) ==
    IF is_ascii(maybe_jwt) /\ count_dots(maybe_jwt) >= 2
    THEN Ok(maybe_jwt)
    ELSE Err(ValidationError("JWT",
                             <<Lit("must be valid ascii and be formatted correctly")>>))
Jwt_try_from(maybe_jwt) ==
    IF is_ascii(maybe_jwt) /\ count_dots(maybe_jwt) = 2
    THEN Ok(maybe_jwt)
    ELSE Err(ValidationError("JWT",
                             <<Lit("must be valid ascii and be formatted correctly")>>))

(***************************************************************************)
(* Callers of the validators: each behaviour validates one string          *)
(***************************************************************************)
\* space, 'a', '-', '!', e with acute accent (2 bytes of UTF-8), euro sign (3)
BodyChars == {32, 97, 45, 33, 233, 8364}
NameLens ==
    (0..MaxShortLen) \cup ((NAME_AND_ID_MAX_LEN - SizeSlack)..(NAME_AND_ID_MAX_LEN + SizeSlack))
\* n characters c, the second of them d
Body(c, d, n) == [i \in 1..n |-> IF i = 2 THEN d ELSE c] \o <<>>
Pad(c, n) == [i \in 1..n |-> c] \o <<>>
\* spaces, a body, tabs
RawStrings ==
    {Pad(32, l) \o Body(c, d, n) \o Pad(9, t) :
        l \in 0..MaxPad, t \in 0..MaxPad, c \in BodyChars, d \in BodyChars, n \in NameLens}
Kinds == {"id_type", "name_type"}
\* u64 values around 0, 2^63 and 2^64
EdgeLimbs == (0..SizeSlack) \cup ((Limb - 1 - SizeSlack)..(Limb - 1))
U64s ==
    {<<h, m, m, l>> : h \in {0, (Limb \div 2) - 1, Limb \div 2, Limb - 1},
                      m \in {0, Limb - 1}, l \in EdgeLimbs}
\* '.', 'a', '=', a heart (not ASCII)
JwtChars == {46, 97, 61, 10084}
JwtStrings == UNION {{f \o <<>> : f \in [1..n -> JwtChars]} : n \in 0..MaxJwtLen}

InitIds ==
    /\ emk = NoValue
    /\ origin = [kind |-> "none", tampered |-> FALSE]
    /\ aev = NoValue
    /\ aevSrc = [kind |-> "none"]
    /\ backend = NoValue
    /\ calls = NoValue
    /\ log = NoValue
    /\ last \in {[op |-> "input", arg |-> raw] : raw \in RawStrings}
            \cup {[op |-> "input_u64", arg |-> n] : n \in U64s}
            \cup {[op |-> "input_jwt", arg |-> jwt] : jwt \in JwtStrings}

ValidateId ==
    /\ last.op = "input"
    /\ \E id_type \in Kinds :
        last' = [op |-> "validate_id", arg |-> last.arg, kind |-> id_type,
                 out |-> validate_id(last.arg, id_type)]
    /\ UNCHANGED <<emk, origin, aev, aevSrc, backend, calls, log>>

ValidateName ==
    /\ last.op = "input"
    /\ \E name_type \in Kinds :
        last' = [op |-> "validate_name", arg |-> last.arg, kind |-> name_type,
                 out |-> validate_name(last.arg, name_type)]
    /\ UNCHANGED <<emk, origin, aev, aevSrc, backend, calls, log>>

UserIdTryFrom ==
    /\ last.op = "input"
    /\ last' = [op |-> "UserId::try_from", arg |-> last.arg, kind |-> "user_id",
                out |-> UserId_try_from(last.arg)]
    /\ UNCHANGED <<emk, origin, aev, aevSrc, backend, calls, log>>

DeviceNameTryFrom ==
    /\ last.op = "input"
    /\ last' = [op |-> "DeviceName::try_from", arg |-> last.arg, kind |-> "device_name",
                out |-> DeviceName_try_from(last.arg)]
    /\ UNCHANGED <<emk, origin, aev, aevSrc, backend, calls, log>>

DeviceIdTryFrom ==
    /\ last.op = "input_u64"
    /\ last' = [op |-> "DeviceId::try_from", arg |-> last.arg,
                out |-> DeviceId_try_from(last.arg)]
    /\ UNCHANGED <<emk, origin, aev, aevSrc, backend, calls, log>>

JwtTryFrom ==
    /\ last.op = "input_jwt"
    /\ last' = [op |-> "Jwt::try_from", arg |-> last.arg,
                out |-> Jwt_try_from(last.arg)]
    /\ UNCHANGED <<emk, origin, aev, aevSrc, backend, calls, log>>

NextIds ==
    \/ ValidateId
    \/ ValidateName
    \/ UserIdTryFrom
    \/ DeviceNameTryFrom
    \/ DeviceIdTryFrom
    \/ JwtTryFrom

SpecIds == InitIds /\ [][NextIds]_vars

(***************************************************************************)
(* Properties of the validators                                            *)
(***************************************************************************)
\* the characters of [a-zA-Z0-9_.$#|@/:;=+'-], one by one
IdChars ==
    (97..122) \cup (65..90) \cup (48..57)
        \cup {95, 46, 36, 35, 124, 64, 47, 58, 59, 61, 43, 39, 45}

Contains(message, piece) == \E i \in 1..Len(message) : message[i] = piece

\* a ValidationError whose message holds both the kind and the trimmed value
NamesKindAndValue(out, kind, trimmed) ==
    /\ ~out.ok
    /\ out.err.kind = "ValidationError"
    /\ Contains(Display(out.err), Lit(kind))
    /\ Contains(Display(out.err), Str(trimmed))

\* C8: validate_id returns the trimmed value exactly when it is 1 to 100
\* characters long, all of them in the id character set, and otherwise a
\* ValidationError whose message holds the kind and the trimmed value
C8_ValidateId ==
    last.op \in {"validate_id", "UserId::try_from"} =>
        LET t == trim(last.arg)
            good == Len(t) \in 1..100 /\ \A i \in 1..Len(t) : t[i] \in IdChars
        IN  /\ last.out.ok <=> good
            /\ good => last.out.val = t
            /\ ~good => NamesKindAndValue(last.out, last.kind, t)

C8_Witness ==
    /\ last.op = "validate_id"
    /\ last.out.ok
    /\ Len(last.out.val) = 100
    /\ Len(last.arg) > 100

\* C9: validate_name, and so DeviceName::try_from, returns the trimmed name
\* exactly when it is 1 to 100 characters long, whatever the characters, and
\* otherwise a ValidationError naming the kind and the trimmed value
C9_ValidateName ==
    last.op \in {"validate_name", "DeviceName::try_from"} =>
        LET t == trim(last.arg)
            good == Len(t) \in 1..100
        IN  /\ last.out.ok <=> good
            /\ good => last.out.val = t
            /\ ~good => NamesKindAndValue(last.out, last.kind, t)

\* C10 as claimed: a DeviceName from try_from is 1 to 100 characters long, all
\* of them in the id character set
C10_DeviceNameIdChars ==
    (last.op = "DeviceName::try_from" /\ last.out.ok) =>
        /\ Len(trim(last.out.val)) \in 1..100
        /\ \A i \in 1..Len(last.out.val) : last.out.val[i] \in IdChars

\* C10 as amended: a DeviceName from try_from is trimmed and 1 to 100
\* characters (at most 100 bytes of UTF-8) long; its characters are any
C10_DeviceNameLength ==
    (last.op = "DeviceName::try_from" /\ last.out.ok) =>
        /\ last.out.val = trim(last.arg)
        /\ trim(last.out.val) = last.out.val
        /\ Len(last.out.val) \in 1..100
        /\ str_len(last.out.val) <= 100

C10_Witness ==
    /\ last.op = "DeviceName::try_from"
    /\ last.out.ok
    /\ \E i \in 1..Len(last.out.val) : last.out.val[i] \notin IdChars
    /\ Len(last.arg) > Len(last.out.val)

(***************************************************************************)
(* C11, C12: DeviceId and Jwt                                               *)
(***************************************************************************)
\* C11: DeviceId::try_from(n) holds n exactly when 1 <= n <= 2^63 - 1 (n is
\* not zero and its top bit is clear); 0 and every n above 2^63 - 1 are
\* rejected with a ValidationError for the field device_id
C11_DeviceId ==
    last.op = "DeviceId::try_from" =>
        LET n == last.arg
            good == n /= <<0, 0, 0, 0>> /\ n[1] < Limb \div 2
        IN  /\ last.out.ok <=> good
            /\ good => last.out.val = n
            /\ ~good => /\ last.out.err.kind = "ValidationError"
                        /\ last.out.err.field_name = "device_id"

\* 2^63 - 1 itself is accepted
C11_Witness ==
    /\ last.op = "DeviceId::try_from"
    /\ last.out.ok
    /\ last.arg = <<Limb \div 2 - 1, Limb - 1, Limb - 1, Limb - 1>>

\* C12: Jwt::try_from(s) holds s unchanged exactly when s is ASCII and has
\* exactly two '.' in it; a string that is not ASCII, or has 0, 1 or more
\* than two dots, is rejected with a ValidationError for the field JWT
C12_Jwt ==
    last.op = "Jwt::try_from" =>
        LET s == last.arg
            dots == {i \in 1..Len(s) : s[i] = 46}
            good == /\ \A i \in 1..Len(s) : s[i] \in 0..127
                    /\ \E i, j \in dots : i < j /\ dots = {i, j}
        IN  /\ last.out.ok <=> good
            /\ good => last.out.val = s
            /\ ~good => /\ last.out.err.kind = "ValidationError"
                        /\ last.out.err.field_name = "JWT"

\* a token of three non-empty segments is accepted
C12_Witness ==
    /\ last.op = "Jwt::try_from"
    /\ last.out.ok
    /\ Len(last.arg) > 3
    /\ last.arg[1] /= 46
    /\ last.arg[Len(last.arg)] /= 46

(***************************************************************************)
(* Keys.  recrypt's private keys are scalars and its public keys points;   *)
(* the model stands in for them with the integers modulo NumScalars and    *)
(* with pairs (x, y) of 32-byte coordinates that satisfy a curve equation. *)
(***************************************************************************)
Scalars == 0..(NumScalars - 1)
PrivateKeys == Scalars \ {0}

\* PrivateKey::as_bytes: the 32 bytes of the scalar, big-endian
PrivateKey_as_bytes(k) == Pattern(AES_KEY_LEN - 1, 0) \o <<k>>
\* the PrivateKey of 32 bytes
PrivateKey_from(bytes) == bytes[Len(bytes)] % NumScalars

Coordinate(v) == Pattern(AES_KEY_LEN - 1, 0) \o <<v % 256>>
CurveY(xv) == (xv * xv + 1) % 256
\* recrypt's compute_public_key
compute_public_key(k) == [x |-> Coordinate(7 * k), y |-> Coordinate(CurveY((7 * k) % 256))]

\* PublicKey::new_from_slice, over RecryptPublicKey::new_from_slice and
\* From<RecryptErr>: both coordinates are 32 bytes and the point is on the curve
PublicKey_new_from_slice(x, y) ==
    IF Len(x) # AES_KEY_LEN \/ Len(y) # AES_KEY_LEN
    THEN Err([kind |-> "WrongSizeError", actual_size |-> NoValue,
              expected_size |-> AES_KEY_LEN])
    ELSE IF \/ \E i \in 1..(AES_KEY_LEN - 1) : x[i] # 0 \/ y[i] # 0
            \/ y[AES_KEY_LEN] # CurveY(x[AES_KEY_LEN])
         THEN Err([kind |-> "KeyGenerationError"])
         ELSE Ok([x |-> x, y |-> y])

\* augment_private_key_with_retry: the private key less a random factor; a
\* factor that is zero or the key itself is refused, and a second one is
\* drawn once
augment_private_key_with_retry(priv_key, factors) ==
    LET usable(a) == a # 0 /\ a # priv_key
        augmented(a) == Ok([new_priv_key |-> (priv_key - a) % NumScalars, aug_factor |-> a])
    IN  IF usable(factors[1]) THEN augmented(factors[1])
        ELSE IF usable(factors[2]) THEN augmented(factors[2])
        ELSE Err([kind |-> "UserPrivateKeyRotationError"])

(***************************************************************************)
(* The IronCore service, as far as the user operations see it              *)
(***************************************************************************)
RequestError == [kind |-> "RequestError"]

\* GET users/current
get_curr_user(b) ==
    Ok([id |-> b.id, segment_id |-> b.segment_id,
        user_master_public_key |-> b.public_key,
        user_private_key |-> b.sealed,
        current_key_id |-> b.key_id,
        needs_rotation |-> b.needs_rotation])

\* PUT users/{id}/keys/{key id}: the update is taken exactly when it names
\* the current key id; the service then stores the key, adds the factor to
\* its half and moves on to the next key id
update_private_key(b, req) ==
    IF req.user_id = b.id /\ req.curr_key_id = b.key_id
    THEN [backend |-> [b EXCEPT !.sealed = req.new_encrypted_priv_key,
                                !.key_id = @ + 1,
                                !.aug_total = (@ + req.aug_factor) % NumScalars,
                                !.needs_rotation = FALSE],
          resp |-> Ok([user_private_key |-> req.new_encrypted_priv_key,
                       user_key_id |-> b.key_id + 1,
                       needs_rotation |-> FALSE])]
    ELSE [backend |-> b, resp |-> Err(RequestError)]

(***************************************************************************)
(* user_rotate_private_key and user_get_current (src/internal/user_api.rs) *)
(***************************************************************************)
\* user_rotate_private_key, had it sealed the key it opened
user_rotate_private_key_resealing_old_key(resp, password, rng, factors) ==
    LET parsed == new_from_slice(resp.user_private_key)
    IN  IF ~parsed.ok THEN parsed
        ELSE LET opened == decrypt_user_master_key(password, parsed.val)
             IN  IF ~opened.ok THEN Err([kind |-> "AesError", err |-> opened.err])
                 ELSE LET priv_key == PrivateKey_from(opened.val)
                          aug == augment_private_key_with_retry(priv_key, factors)
                      IN  IF ~aug.ok THEN aug
                          ELSE LET sealed == encrypt_user_master_key(rng, password,
                                                 PrivateKey_as_bytes(priv_key))
                               IN  IF ~sealed.ok THEN sealed
                                   ELSE Ok([user_id |-> resp.id,
                                            curr_key_id |-> resp.current_key_id,
                                            new_encrypted_priv_key |->
                                                EncryptedMasterKey_bytes(sealed.val),
                                            aug_factor |-> aug.val.aug_factor])

\* user_rotate_private_key, had it sealed the key moved by the factor the
\* other way round
user_rotate_private_key_adding_factor(resp, password, rng, factors) ==
    LET parsed == new_from_slice(resp.user_private_key)
    IN  IF ~parsed.ok THEN parsed
        ELSE LET opened == decrypt_user_master_key(password, parsed.val)
             IN  IF ~opened.ok THEN Err([kind |-> "AesError", err |-> opened.err])
                 ELSE LET priv_key == PrivateKey_from(opened.val)
                          aug == augment_private_key_with_retry(priv_key, factors)
                      IN  IF ~aug.ok THEN aug
                          ELSE LET sealed == encrypt_user_master_key(rng, password,
                                                 PrivateKey_as_bytes(
                                                     (priv_key + aug.val.aug_factor)
                                                         % NumScalars))
                               IN  IF ~sealed.ok THEN sealed
                                   ELSE Ok([user_id |-> resp.id,
                                            curr_key_id |-> resp.current_key_id,
                                            new_encrypted_priv_key |->
                                                EncryptedMasterKey_bytes(sealed.val),
                                            aug_factor |-> aug.val.aug_factor])

\* user_rotate_private_key between its two requests: from the response of
\* get_curr_user to the update it sends, or the error it returns
user_rotate_private_key(resp, password, rng, factors) ==
    LET parsed == new_from_slice(resp.user_private_key)
    IN  IF ~parsed.ok THEN parsed
        ELSE LET opened == decrypt_user_master_key(password, parsed.val)
             IN  IF ~opened.ok THEN Err([kind |-> "AesError", err |-> opened.err])
                 ELSE LET priv_key == PrivateKey_from(opened.val)
                          aug == augment_private_key_with_retry(priv_key, factors)
                      IN  IF ~aug.ok THEN aug
                          ELSE LET sealed == encrypt_user_master_key(rng, password,
                                                 PrivateKey_as_bytes(aug.val.new_priv_key))
                               IN  IF ~sealed.ok THEN sealed
                                   ELSE Ok([user_id |-> resp.id,
                                            curr_key_id |-> resp.current_key_id,
                                            new_encrypted_priv_key |->
                                                EncryptedMasterKey_bytes(sealed.val),
                                            aug_factor |-> aug.val.aug_factor])

\* the call, returned with out while the service stores b
Returned(call, out, b) == [call EXCEPT !.pc = "done", !.out = out, !.after = b]

\* user_rotate_private_key after its update, had it asked again when refused
user_rotate_private_key_returned_retrying(call, resp, b) ==
    IF resp.ok
    THEN Returned(call, Ok([user_master_private_key |-> resp.val.user_private_key,
                            needs_rotation |-> resp.val.needs_rotation]), b)
    ELSE [call EXCEPT !.pc = "get_curr_user"]

\* user_rotate_private_key after its update, had it taken a refusal for done
user_rotate_private_key_returned_swallowing(call, resp, b) ==
    Returned(call, Ok([user_master_private_key |-> call.req.new_encrypted_priv_key,
                       needs_rotation |-> FALSE]), b)

\* user_rotate_private_key after its update: the response becomes the
\* UserUpdatePrivateKeyResult, a failure is returned as it is
user_rotate_private_key_returned(call, resp, b) ==
    IF resp.ok
    THEN Returned(call, Ok([user_master_private_key |-> resp.val.user_private_key,
                            needs_rotation |-> resp.val.needs_rotation]), b)
    ELSE Returned(call, resp, b)

\* user_get_current of the response of get_curr_user
user_get_current(resp) ==
    IF ~resp.ok THEN resp
    ELSE LET key == PublicKey_new_from_slice(resp.val.user_master_public_key.x,
                                             resp.val.user_master_public_key.y)
         IN  IF ~key.ok THEN key
             ELSE Ok([needs_rotation |-> resp.val.needs_rotation,
                      user_public_key |-> key.val,
                      segment_id |-> resp.val.segment_id,
                      account_id |-> resp.val.id])

(***************************************************************************)
(* Two clients of one user, created with the password "p", rotate the      *)
(* user's private key, each of them once and with a password of its        *)
(* choice; a call is the two requests of user_rotate_private_key, and the  *)
(* service answers one request at a time.                                  *)
(***************************************************************************)
Clients == {"c1", "c2"}
ThePassword == <<112>>
RotatePasswords == {ThePassword, <<113>>}
Idle == [pc |-> "idle", op |-> "none"]

\* the random source of a sealing: one that has sealed nothing yet, or one
\* that has sealed one key
RotateRngs == {[seed |-> 1, pos |-> 0], [seed |-> 1, pos |-> PBKDF2_SALT_LEN + AES_IV_LEN]}

\* the user as user_create leaves it at the service
CreatedUser(k, rng) ==
    [id |-> <<97>>, segment_id |-> 1,
     public_key |-> compute_public_key(k),
     sealed |-> EncryptedMasterKey_bytes(
                    encrypt_user_master_key(rng, ThePassword, PrivateKey_as_bytes(k)).val),
     key_id |-> 1, aug_total |-> 0, needs_rotation |-> TRUE, devices |-> <<>>]

InitRotate ==
    /\ emk = NoValue
    /\ origin = [kind |-> "none", tampered |-> FALSE]
    /\ aev = NoValue
    /\ aevSrc = [kind |-> "none"]
    /\ last = [op |-> "none"]
    /\ \E k \in PrivateKeys, rng \in RotateRngs :
        /\ backend = CreatedUser(k, rng)
        /\ log = [accepted |-> <<>>, created |-> CreatedUser(k, rng)]
    /\ calls = [c \in Clients |-> Idle]

\* the call, with the note that its request has failed with the error err
Failed(call, request, err) == [call EXCEPT !.failed = [request |-> request, err |-> err]]

\* a client calls user_rotate_private_key and sends get_curr_user
RotateCall(c) ==
    /\ calls[c].pc = "idle"
    /\ backend # NoValue
    /\ \E password \in RotatePasswords :
        calls' = [calls EXCEPT ![c] =
                    [op |-> "user_rotate_private_key", pc |-> "get_curr_user",
                     asked |-> <<"get_curr_user">>, failed |-> NoValue,
                     password |-> password,
                     before |-> backend, after |-> NoValue,
                     fetched |-> NoValue, factors |-> NoValue,
                     req |-> NoValue, sent |-> 0, out |-> NoValue]]
    /\ UNCHANGED <<emk, origin, aev, aevSrc, last, backend, log>>

\* get_curr_user fails
RotateGetFails(c) ==
    /\ calls[c].pc = "get_curr_user"
    /\ calls' = [calls EXCEPT ![c] =
                    Returned(Failed(@, "get_curr_user", RequestError),
                             Err(RequestError), backend)]
    /\ UNCHANGED <<emk, origin, aev, aevSrc, last, backend, log>>

\* get_curr_user answers: the client opens the key, augments it, seals the
\* new key and sends the update, or returns the error of one of these steps;
\* a is the factor the random source hands out first, its successor the one
\* it hands out for the second try
RotateGotUser(c) ==
    /\ calls[c].pc = "get_curr_user"
    /\ \E rng \in RotateRngs, a \in Scalars :
        LET resp == get_curr_user(backend).val
            factors == <<a, (a + 1) % NumScalars>>
            made == user_rotate_private_key(resp, calls[c].password, rng, factors)
            seen == [calls[c] EXCEPT !.fetched = resp, !.factors = factors]
        IN  calls' = [calls EXCEPT ![c] =
                        IF made.ok
                        THEN [seen EXCEPT !.pc = "update_private_key",
                                          !.asked = Append(@, "update_private_key"),
                                          !.req = made.val, !.sent = @ + 1]
                        ELSE Returned(seen, made, backend)]
    /\ UNCHANGED <<emk, origin, aev, aevSrc, last, backend, log>>

\* update_private_key fails before the service has seen it
RotateUpdateFails(c) ==
    /\ calls[c].pc = "update_private_key"
    /\ calls' = [calls EXCEPT ![c] =
                    user_rotate_private_key_returned(
                        Failed(@, "update_private_key", RequestError),
                        Err(RequestError), backend)]
    /\ UNCHANGED <<emk, origin, aev, aevSrc, last, backend, log>>

\* the service takes or refuses the update, and the client returns
RotateUpdated(c) ==
    /\ calls[c].pc = "update_private_key"
    /\ LET req == calls[c].req
           done == update_private_key(backend, req)
       IN  /\ backend' = done.backend
           /\ calls' = [calls EXCEPT ![c] =
                           user_rotate_private_key_returned(
                               IF done.resp.ok THEN @
                               ELSE Failed(@, "update_private_key", done.resp.err),
                               done.resp, done.backend)]
           /\ log' = IF done.resp.ok
                     THEN [log EXCEPT !.accepted = Append(@,
                              [call |-> c, key_id |-> req.curr_key_id,
                               sealed |-> req.new_encrypted_priv_key,
                               aug_factor |-> req.aug_factor,
                               replaced |-> backend.sealed])]
                     ELSE log
    /\ UNCHANGED <<emk, origin, aev, aevSrc, last>>

NextRotate ==
    \/ \E c \in Clients : RotateCall(c)
    \/ \E c \in Clients : RotateGetFails(c)
    \/ \E c \in Clients : RotateGotUser(c)
    \/ \E c \in Clients : RotateUpdateFails(c)
    \/ \E c \in Clients : RotateUpdated(c)

SpecRotate == InitRotate /\ [][NextRotate]_vars

(***************************************************************************)
(* C13, C14, C15: rotation of the user's private key                       *)
(***************************************************************************)
\* the updates of client c that the service accepted
AcceptedOf(c) == {i \in DOMAIN log.accepted : log.accepted[i].call = c}
\* what a client can see of the user's record
Stored(b) == [sealed |-> b.sealed, key_id |-> b.key_id, public_key |-> b.public_key]
\* the private key that sealed bytes hold under the user's password
OpenedKey(sealed) ==
    PrivateKey_from(decrypt_user_master_key(ThePassword, new_from_slice(sealed).val).val)

C14_OneUpdatePerKeyId ==
    /\ \A i, j \in DOMAIN log.accepted :
          i # j => log.accepted[i].key_id # log.accepted[j].key_id
    /\ \A c \in Clients :
          calls[c].pc # "idle" =>
              /\ calls[c].sent <= 1
              /\ (calls[c].pc = "done" /\ AcceptedOf(c) = {}) =>
                    ~calls[c].out.ok
              /\ (calls[c].pc = "done" /\ calls[c].sent = 1 /\ AcceptedOf(c) = {}) =>
                    calls[c].out = Err(RequestError)
    /\ \A c, d \in Clients :
          (/\ c # d
           /\ calls[c].pc = "done" /\ calls[c].sent = 1
           /\ calls[d].pc = "done" /\ calls[d].sent = 1
           /\ calls[c].req.curr_key_id = calls[d].req.curr_key_id) =>
              ~(calls[c].out.ok /\ calls[d].out.ok)
    /\ backend.sealed =
          IF log.accepted = <<>> THEN log.created.sealed
          ELSE log.accepted[Len(log.accepted)].sealed

\* both clients sent an update against the same key id; one was accepted
C14_Witness ==
    \E c, d \in Clients :
        /\ calls[c].pc = "done" /\ calls[c].sent = 1 /\ ~calls[c].out.ok
        /\ calls[d].pc = "done" /\ calls[d].sent = 1 /\ calls[d].out.ok
        /\ calls[c].req.curr_key_id = calls[d].req.curr_key_id
        /\ calls[c].out = Err(RequestError)

\* C15: after any number of accepted rotations the public key that
\* user_get_current fetches is the one the user was created with, and every
\* accepted rotation stored sealed bytes that differ from those it replaced
C15_PublicKeyKept ==
    /\ LET fetched == user_get_current(get_curr_user(backend))
       IN  /\ fetched.ok
           /\ fetched.val.user_public_key = log.created.public_key
    /\ \A i \in DOMAIN log.accepted :
          log.accepted[i].sealed # log.accepted[i].replaced

\* two rotations, one after the other
C15_Witness ==
    /\ Len(log.accepted) = 2
    /\ log.accepted[2].replaced = log.accepted[1].sealed
    /\ backend.sealed = log.accepted[2].sealed

(***************************************************************************)
(* Device provisioning and user_verify (src/internal/user_api.rs)          *)
(***************************************************************************)
None == NoValue
Some(v) == [some |-> v]

\* POST users/verify: the user of the Jwt, if there is one
requests_user_verify(b) ==
    IF b = NoValue THEN Ok(None)
    ELSE Ok(Some([id |-> b.id, segment_id |-> b.segment_id,
                  user_master_public_key |-> b.public_key,
                  user_private_key |-> b.sealed,
                  needs_rotation |-> b.needs_rotation]))

\* TryFrom<UserVerifyResponse> for UserResult: the id and the public key of
\* the response are decoded, as user_get_current and generate_device_key
\* decode them
UserResult_try_from(resp) ==
    LET account_id == UserId_try_from(resp.id)
        key == PublicKey_new_from_slice(resp.user_master_public_key.x,
                                        resp.user_master_public_key.y)
    IN  IF ~account_id.ok THEN account_id
        ELSE IF ~key.ok THEN key
        ELSE Ok([account_id |-> account_id.val,
                 segment_id |-> resp.segment_id,
                 user_public_key |-> key.val,
                 needs_rotation |-> resp.needs_rotation])

\* user_verify, had it reported an absent user as an error
user_verify_absent_is_error(resp) ==
    IF ~resp.ok THEN resp
    ELSE IF resp.val = None THEN Err([kind |-> "UserDoesNotExist"])
    ELSE LET converted == UserResult_try_from(resp.val.some)
         IN  IF converted.ok THEN Ok(Some(converted.val)) ELSE converted

\* user_verify of the response of its request: .await?, then
\* .map(|resp| resp.try_into()).transpose()
user_verify(resp) ==
    IF ~resp.ok THEN resp
    ELSE IF resp.val = None THEN Ok(None)
    ELSE LET converted == UserResult_try_from(resp.val.some)
         IN  IF converted.ok THEN Ok(Some(converted.val)) ELSE converted

\* recrypt's errors, as IronOxideErr: had every one of them become RecryptError
From_RecryptErr_fallback_only(recrypt_err) ==
    [kind |-> "RecryptError", msg |-> recrypt_err.kind]

\* recrypt's errors, as IronOxideErr
From_RecryptErr(recrypt_err) ==
    CASE recrypt_err.kind = "InputWrongSize" ->
            [kind |-> "WrongSizeError", actual_size |-> NoValue,
             expected_size |-> recrypt_err.expected_size]
      [] recrypt_err.kind = "InvalidPublicKey" -> [kind |-> "KeyGenerationError"]
      [] OTHER -> [kind |-> "RecryptError", msg |-> recrypt_err.kind]

\* recrypt's generate_key_pair: the private key drawn and its public key;
\* it fails when the drawn key has no public key, which is the only way it
\* fails
generate_key_pair(draw) ==
    IF draw = 0 THEN Err([kind |-> "InvalidPublicKey"])
    ELSE Ok([private_key |-> draw, public_key |-> compute_public_key(draw)])

KeyPair_new(public_key, private_key) == [public_key |-> public_key, private_key |-> private_key]
\* recrypt's ed25519 key pair of one draw of the random source
DeviceSigningKeyPair(draw) == [secret |-> draw, public |-> (5 * draw + 3) % 256]

\* recrypt's generate_transform_key
generate_transform_key(from_private, to_public, signing_keypair) ==
    [from_public |-> compute_public_key(from_private), to_public |-> to_public,
     blinded |-> (11 * from_private + to_public.x[AES_KEY_LEN]) % 256,
     signed_by |-> signing_keypair.public]
TransformKey_to_bytes(tk) ==
    tk.to_public.x \o tk.to_public.y \o <<tk.blinded, tk.signed_by>>
PublicKey_as_bytes(pk) == pk.x \o pk.y

\* i64::to_string, as UTF-8
RECURSIVE to_string(_)
to_string(n) == IF n < 10 THEN <<48 + n>> ELSE to_string(n \div 10) \o <<48 + (n % 10)>>

\* recrypt's schnorr_sign
schnorr_sign(private_key, public_key, message) ==
    [signer |-> public_key, with |-> private_key, message |-> message]

\* gen_device_add_signature, had it put the Jwt in front of the transform key
gen_device_add_signature_jwt_first(jwt, user_master_keypair, transform_key, signing_ts) ==
    LET msg == to_string(signing_ts) \o jwt \o TransformKey_to_bytes(transform_key)
                   \o PublicKey_as_bytes(user_master_keypair.public_key)
    IN  schnorr_sign(user_master_keypair.private_key, user_master_keypair.public_key, msg)

gen_device_add_signature(jwt, user_master_keypair, transform_key, signing_ts) ==
    LET msg == to_string(signing_ts) \o TransformKey_to_bytes(transform_key)
                   \o jwt \o PublicKey_as_bytes(user_master_keypair.public_key)
    IN  schnorr_sign(user_master_keypair.private_key, user_master_keypair.public_key, msg)

\* generate_device_add, had it bundled the key pair it was given
generate_device_add_with_master_keys(jwt, user_master_keypair, signing_ts, draws) ==
    LET signing_keypair == DeviceSigningKeyPair(draws.signing)
        drawn == generate_key_pair(draws.device)
    IN  IF ~drawn.ok THEN Err(From_RecryptErr(drawn.err))
        ELSE LET device_keypair ==
                     KeyPair_new(drawn.val.public_key, drawn.val.private_key)
                 trans_key ==
                     generate_transform_key(user_master_keypair.private_key,
                                            device_keypair.public_key, signing_keypair)
                 sig == gen_device_add_signature(jwt, user_master_keypair, trans_key,
                                                 signing_ts)
             IN  Ok([user_public_key |-> user_master_keypair.public_key,
                     transform_key |-> trans_key,
                     device_keys |-> user_master_keypair,
                     signing_keys |-> signing_keypair,
                     signature |-> sig,
                     signature_ts |-> signing_ts])

\* generate_device_add; draws is what the random source hands to
\* generate_ed25519_key_pair and to generate_key_pair, a device draw of 0
\* being recrypt's failure to make a key pair
generate_device_add(jwt, user_master_keypair, signing_ts, draws) ==
    LET signing_keypair == DeviceSigningKeyPair(draws.signing)
        drawn == generate_key_pair(draws.device)
    IN  IF ~drawn.ok THEN Err(From_RecryptErr(drawn.err))
        ELSE LET device_keypair ==
                     KeyPair_new(drawn.val.public_key, drawn.val.private_key)
                 trans_key ==
                     generate_transform_key(user_master_keypair.private_key,
                                            device_keypair.public_key, signing_keypair)
                 sig == gen_device_add_signature(jwt, user_master_keypair, trans_key,
                                                 signing_ts)
             IN  Ok([user_public_key |-> user_master_keypair.public_key,
                     transform_key |-> trans_key,
                     device_keys |-> device_keypair,
                     signing_keys |-> signing_keypair,
                     signature |-> sig,
                     signature_ts |-> signing_ts])

UserDoesNotExist ==
    [kind |-> "UserDoesNotExist",
     msg |-> "Device cannot be added to a user that doesn't exist"]

\* what a step of generate_device_key leaves: its outcome, and which draws
\* of the random source it used up
Step(out, signing, device) == [out |-> out, signing |-> signing, device |-> device]

\* generate_device_key, had it made the device's keys before it looked at
\* the answer of user_verify
generate_device_key_keys_first(resp, jwt, password, signing_ts, draws) ==
    IF ~resp.ok THEN Step(resp, {draws.signing}, {draws.device} \ {0})
    ELSE IF resp.val = None
    THEN Step(Err(UserDoesNotExist), {draws.signing}, {draws.device} \ {0})
    ELSE
    LET user == resp.val.some
        user_public_key == PublicKey_new_from_slice(user.user_master_public_key.x,
                                                    user.user_master_public_key.y)
        parsed == new_from_slice(user.user_private_key)
    IN  IF ~user_public_key.ok THEN Step(user_public_key, {}, {})
        ELSE IF ~parsed.ok THEN Step(parsed, {}, {})
        ELSE
        LET opened == decrypt_user_master_key(password, parsed.val)
        IN  IF ~opened.ok THEN Step(Err([kind |-> "AesError", err |-> opened.err]), {}, {})
            ELSE
            LET user_keypair == KeyPair_new(user_public_key.val, PrivateKey_from(opened.val))
                device_add == generate_device_add(jwt, user_keypair, signing_ts, draws)
                account_id == UserId_try_from(user.id)
                drawn == {draws.device} \ {0}
            IN  IF ~device_add.ok THEN Step(device_add, {draws.signing}, drawn)
                ELSE IF ~account_id.ok THEN Step(account_id, {draws.signing}, drawn)
                ELSE Step(Ok([device_add |-> device_add.val,
                              account_id |-> account_id.val,
                              segment_id |-> user.segment_id]),
                          {draws.signing}, drawn)

\* generate_device_key from the answer of user_verify to the DeviceAdd and
\* the account id it sends user_device_add with, or the error it returns
generate_device_key(resp, jwt, password, signing_ts, draws) ==
    IF ~resp.ok THEN Step(resp, {}, {})
    ELSE IF resp.val = None THEN Step(Err(UserDoesNotExist), {}, {})
    ELSE
    LET user == resp.val.some
        user_public_key == PublicKey_new_from_slice(user.user_master_public_key.x,
                                                    user.user_master_public_key.y)
        parsed == new_from_slice(user.user_private_key)
    IN  IF ~user_public_key.ok THEN Step(user_public_key, {}, {})
        ELSE IF ~parsed.ok THEN Step(parsed, {}, {})
        ELSE
        LET opened == decrypt_user_master_key(password, parsed.val)
        IN  IF ~opened.ok THEN Step(Err([kind |-> "AesError", err |-> opened.err]), {}, {})
            ELSE
            LET user_keypair == KeyPair_new(user_public_key.val, PrivateKey_from(opened.val))
                device_add == generate_device_add(jwt, user_keypair, signing_ts, draws)
                account_id == UserId_try_from(user.id)
                drawn == {draws.device} \ {0}
            IN  IF ~device_add.ok THEN Step(device_add, {draws.signing}, drawn)
                ELSE IF ~account_id.ok THEN Step(account_id, {draws.signing}, drawn)
                ELSE Step(Ok([device_add |-> device_add.val,
                              account_id |-> account_id.val,
                              segment_id |-> user.segment_id]),
                          {draws.signing}, drawn)

\* POST users/devices: the service stores the device under the next id
user_device_add(b, device_add, device_name, now) ==
    LET device == [id |-> u64_of(Len(b.devices) + 1), name |-> device_name,
                   public_key |-> device_add.device_keys.public_key,
                   transform_key |-> device_add.transform_key,
                   signing_public_key |-> device_add.signing_keys.public,
                   created |-> now, updated |-> now]
    IN  [backend |-> [b EXCEPT !.devices = Append(@, device)],
         resp |-> Ok([device_id |-> device.id, name |-> device_name,
                      created |-> now, updated |-> now])]

\* generate_device_key after user_device_add: the DeviceAddResult
generate_device_key_returned(call, resp) ==
    IF ~resp.ok THEN [call EXCEPT !.pc = "done", !.out = resp]
    ELSE [call EXCEPT !.pc = "done", !.out =
            Ok([account_id |-> call.req.account_id,
                segment_id |-> call.req.segment_id,
                device_private_key |-> call.req.device_add.device_keys.private_key,
                signing_private_key |-> call.req.device_add.signing_keys,
                device_id |-> resp.val.device_id,
                name |-> resp.val.name,
                created |-> resp.val.created,
                last_updated |-> resp.val.updated])]

DeviceContext_new(account_id, segment_id, private_device_key, signing_keys) ==
    [auth |-> [account_id |-> account_id, segment_id |-> segment_id,
               signing_keys |-> signing_keys],
     private_device_key |-> private_device_key]

\* impl From<DeviceAddResult> for DeviceContext
DeviceContext_from(dar) ==
    DeviceContext_new(dar.account_id, dar.segment_id, dar.device_private_key,
                      dar.signing_private_key)

(***************************************************************************)
(* Two clients hold the same Jwt; each calls user_verify or                *)
(* generate_device_key once.  The Jwt's user is absent, or was created     *)
(* with the password "p"; its record may hold an id or a public key that   *)
(* does not decode.  The random source never hands out a draw twice.        *)
(***************************************************************************)
TheJwt == <<97, 46, 98, 46, 99>>
DeviceNames == {None, Some(<<100>>)}
Shapes == {"sound", "off_curve", "short_x", "bad_id"}
Shaped(user, shape) ==
    CASE shape = "sound" -> user
      [] shape = "off_curve" -> [user EXCEPT !.public_key.y = Coordinate(0)]
      [] shape = "short_x" -> [user EXCEPT !.public_key.x = Tail(@)]
      [] shape = "bad_id" -> [user EXCEPT !.id = <<33>>]

\* the time, in milliseconds, at which each client calls
Clock == [c \in Clients |-> IF c = "c1" THEN 999 ELSE 1500]

\* the draw the random source hands out after those of used
NextDraw(used) == CHOOSE d \in PrivateKeys \ used : \A e \in PrivateKeys \ used : d <= e

InitDevice ==
    /\ emk = NoValue
    /\ origin = [kind |-> "none", tampered |-> FALSE]
    /\ aev = NoValue
    /\ aevSrc = [kind |-> "none"]
    /\ last = [op |-> "none"]
    /\ \/ /\ backend = NoValue
          /\ log = [device_draws |-> {}, signing_draws |-> {}, requests |-> <<>>,
                    master |-> 0]
       \/ \E k \in PrivateKeys, shape \in Shapes :
          /\ backend = Shaped(CreatedUser(k, [seed |-> 1, pos |-> 0]), shape)
          /\ log = [device_draws |-> {k}, signing_draws |-> {}, requests |-> <<>>,
                    master |-> k]
    /\ calls = [c \in Clients |-> Idle]

\* a client calls user_verify
VerifyCall(c) ==
    /\ calls[c].pc = "idle"
    /\ calls' = [calls EXCEPT ![c] =
                    [op |-> "user_verify", pc |-> "user_verify",
                     asked |-> <<"user_verify">>, failed |-> NoValue,
                     reported |-> NoValue, out |-> NoValue]]
    /\ UNCHANGED <<emk, origin, aev, aevSrc, last, backend, log>>

\* the request of user_verify fails, or is answered
VerifyReturned(c) ==
    /\ calls[c].op = "user_verify" /\ calls[c].pc = "user_verify"
    /\ \E resp \in {Err(RequestError), requests_user_verify(backend)} :
        calls' = [calls EXCEPT ![c] =
                    [(IF resp.ok THEN @ ELSE Failed(@, "user_verify", resp.err))
                        EXCEPT !.pc = "done", !.reported = resp, !.out = user_verify(resp)]]
    /\ UNCHANGED <<emk, origin, aev, aevSrc, last, backend, log>>

\* a client calls generate_device_key
DeviceCall(c) ==
    /\ calls[c].pc = "idle"
    /\ \E password \in RotatePasswords, device_name \in DeviceNames :
        calls' = [calls EXCEPT ![c] =
                    [op |-> "generate_device_key", pc |-> "user_verify",
                     asked |-> <<"user_verify">>, failed |-> NoValue,
                     password |-> password, device_name |-> device_name,
                     signing_ts |-> Clock[c], reported |-> NoValue,
                     draws_before |-> log.device_draws,
                     drew |-> [signing |-> {}, device |-> {}],
                     req |-> NoValue, out |-> NoValue]]
    /\ UNCHANGED <<emk, origin, aev, aevSrc, last, backend, log>>

\* the request of user_verify fails, or is answered: the client opens the
\* master key, makes the device's keys and sends user_device_add, or returns
\* an error
DeviceVerified(c) ==
    /\ calls[c].op = "generate_device_key" /\ calls[c].pc = "user_verify"
    /\ \E resp \in {Err(RequestError), requests_user_verify(backend)},
          device \in (PrivateKeys \ log.device_draws) \cup {0} :
        LET step == generate_device_key(resp, TheJwt, calls[c].password,
                        calls[c].signing_ts,
                        [signing |-> NextDraw(log.signing_draws), device |-> device])
        IN  /\ calls' = [calls EXCEPT ![c] =
                    [(IF resp.ok THEN @ ELSE Failed(@, "user_verify", resp.err))
                        EXCEPT !.pc = IF step.out.ok THEN "user_device_add" ELSE "done",
                              !.asked = IF step.out.ok THEN Append(@, "user_device_add")
                                        ELSE @,
                              !.reported = resp,
                              !.drew = [signing |-> step.signing, device |-> step.device],
                              !.req = IF step.out.ok THEN step.out.val ELSE NoValue,
                              !.out = IF step.out.ok THEN NoValue ELSE step.out]]
            /\ log' = [log EXCEPT
                         !.device_draws = @ \cup step.device,
                         !.signing_draws = @ \cup step.signing,
                         !.requests = IF step.out.ok
                                      THEN Append(@, [client |-> c,
                                                      op |-> "user_device_add",
                                                      device_add |-> step.out.val.device_add])
                                      ELSE @]
    /\ UNCHANGED <<emk, origin, aev, aevSrc, last, backend>>

\* user_device_add fails before the service has seen it
DeviceAddFails(c) ==
    /\ calls[c].op = "generate_device_key" /\ calls[c].pc = "user_device_add"
    /\ calls' = [calls EXCEPT ![c] =
                    generate_device_key_returned(
                        Failed(@, "user_device_add", RequestError), Err(RequestError))]
    /\ UNCHANGED <<emk, origin, aev, aevSrc, last, backend, log>>

\* the service stores the device, and the client returns the DeviceAddResult
DeviceAdded(c) ==
    /\ calls[c].op = "generate_device_key" /\ calls[c].pc = "user_device_add"
    /\ LET added == user_device_add(backend, calls[c].req.device_add,
                                    calls[c].device_name, calls[c].signing_ts)
       IN  /\ backend' = added.backend
           /\ calls' = [calls EXCEPT ![c] =
                           generate_device_key_returned(
                               IF added.resp.ok THEN @
                               ELSE Failed(@, "user_device_add", added.resp.err),
                               added.resp)]
    /\ UNCHANGED <<emk, origin, aev, aevSrc, last, log>>

NextDevice ==
    \/ \E c \in Clients : VerifyCall(c)
    \/ \E c \in Clients : VerifyReturned(c)
    \/ \E c \in Clients : DeviceCall(c)
    \/ \E c \in Clients : DeviceVerified(c)
    \/ \E c \in Clients : DeviceAddFails(c)
    \/ \E c \in Clients : DeviceAdded(c)

SpecDevice == InitDevice /\ [][NextDevice]_vars

(***************************************************************************)
(* C16, C17, C18: device provisioning and user_verify                      *)
(***************************************************************************)
\* C16: the DeviceAddResult of a generate_device_key that succeeded, and the
\* DeviceContext made from it, hold the account id and segment id of the
\* Jwt's user, the private key of the device key pair drawn in this call and
\* the signing key pair drawn in this call; the device private key is not
\* the user's master private key, and it is the key of the device the
\* service was sent
C16_DeviceAddResult ==
    \A c \in Clients :
        (calls[c].op = "generate_device_key" /\ calls[c].pc = "done" /\ calls[c].out.ok) =>
            LET dar == calls[c].out.val
                ctx == DeviceContext_from(dar)
            IN  /\ dar.account_id = backend.id
                /\ dar.segment_id = backend.segment_id
                /\ ctx.auth.account_id = backend.id
                /\ ctx.auth.segment_id = backend.segment_id
                /\ calls[c].drew.device = {dar.device_private_key}
                /\ dar.device_private_key \notin calls[c].draws_before
                /\ calls[c].drew.signing = {dar.signing_private_key.secret}
                /\ dar.signing_private_key = DeviceSigningKeyPair(dar.signing_private_key.secret)
                /\ ctx.private_device_key = dar.device_private_key
                /\ ctx.auth.signing_keys = dar.signing_private_key
                /\ log.master = OpenedKey(backend.sealed)
                /\ dar.device_private_key # log.master
                /\ \E i \in DOMAIN backend.devices :
                      /\ backend.devices[i].id = dar.device_id
                      /\ backend.devices[i].public_key
                            = compute_public_key(dar.device_private_key)

\* both clients provisioned a device
C16_Witness ==
    \A c \in Clients :
        /\ calls[c].op = "generate_device_key" /\ calls[c].pc = "done" /\ calls[c].out.ok
        /\ calls[c].out.val.device_private_key \in PrivateKeys

\* C17: when the service answers user_verify with no user, generate_device_key
\* returns UserDoesNotExist, has drawn no key and has sent no user_device_add
C17_NoUserNoDevice ==
    \A c \in Clients :
        (calls[c].op = "generate_device_key" /\ calls[c].reported = Ok(None)) =>
            /\ calls[c].pc = "done"
            /\ ~calls[c].out.ok
            /\ calls[c].out.err.kind = "UserDoesNotExist"
            /\ calls[c].drew = [signing |-> {}, device |-> {}]
            /\ log.device_draws = {} /\ log.signing_draws = {}
            /\ calls[c].req = NoValue
            /\ \A i \in DOMAIN log.requests : log.requests[i].client # c

C17_Witness ==
    \E c \in Clients :
        /\ calls[c].op = "generate_device_key"
        /\ calls[c].reported = Ok(None)
        /\ calls[c].out = Err(UserDoesNotExist)

\* C18 as claimed: user_verify returns Ok(None) exactly when the service
\* reports no user, Ok(Some(..)) when it reports a user, and an error only
\* when the request failed
C18_VerifyErrorsOnlyOnRequestFailure ==
    \A c \in Clients :
        (calls[c].op = "user_verify" /\ calls[c].pc = "done") =>
            LET rep == calls[c].reported
                out == calls[c].out
            IN  /\ out = Ok(None) <=> rep = Ok(None)
                /\ (rep.ok /\ rep.val # None) => (out.ok /\ out.val # None)
                /\ ~out.ok => ~rep.ok

\* C18 as amended: user_verify returns Ok(None) exactly when the service
\* reports no user; the error of the request when the request failed; and,
\* when the service reports a user, Ok(Some(..)) with the user's id, segment
\* id, decoded public key and rotation flag if the id and the public key of
\* the response decode, and otherwise the error of the decoding
C18_VerifyDecodes ==
    \A c \in Clients :
        (calls[c].op = "user_verify" /\ calls[c].pc = "done") =>
            LET rep == calls[c].reported
                out == calls[c].out
            IN  /\ out = Ok(None) <=> rep = Ok(None)
                /\ ~rep.ok => out = rep
                /\ (rep.ok /\ rep.val # None) =>
                      LET u == rep.val.some
                          t == trim(u.id)
                          pk == u.user_master_public_key
                          id_good == /\ Len(t) \in 1..NAME_AND_ID_MAX_LEN
                                     /\ \A i \in 1..Len(t) : t[i] \in IdChars
                          key_good == /\ Len(pk.x) = AES_KEY_LEN /\ Len(pk.y) = AES_KEY_LEN
                                      /\ \E k \in Scalars : pk = compute_public_key(k)
                      IN  IF id_good /\ key_good
                          THEN out = Ok(Some([account_id |-> t, segment_id |-> u.segment_id,
                                              user_public_key |-> pk,
                                              needs_rotation |-> u.needs_rotation]))
                          ELSE /\ ~out.ok
                               /\ out.err.kind \in {"ValidationError", "WrongSizeError",
                                                    "KeyGenerationError"}

\* the service reported a user whose public key is not a point of the curve
C18_Witness ==
    \E c \in Clients :
        /\ calls[c].op = "user_verify" /\ calls[c].pc = "done"
        /\ calls[c].reported.ok /\ calls[c].reported.val # None
        /\ calls[c].out = Err([kind |-> "KeyGenerationError"])

(***************************************************************************)
(* device_list, user_key_list and get_user_keys (src/internal/user_api.rs) *)
(***************************************************************************)
\* impl From<DeviceListItem> for UserDevice
UserDevice_from(item) ==
    [id |-> item.id, name |-> item.name, created |-> item.created,
     last_updated |-> item.updated, is_current_device |-> item.is_current_device]

\* a.id.0.cmp(&b.id.0) is Less or Equal
id_le(a, b) == ~u64_lt(b.id, a.id)

\* Vec::sort_by with the comparison of device_list: the sort is stable, so a
\* device goes behind every device whose id is not greater
RECURSIVE sort_by_id(_)
sort_by_id(vec) ==
    IF vec = <<>> THEN <<>>
    ELSE LET sorted == sort_by_id(SubSeq(vec, 1, Len(vec) - 1))
             x == vec[Len(vec)]
             front == SelectSeq(sorted, LAMBDA d : id_le(d, x))
             back == SelectSeq(sorted, LAMBDA d : ~id_le(d, x))
         IN  front \o <<x>> \o back

\* Vec::dedup_by_key on the id
RECURSIVE dedup_by_id(_)
dedup_by_id(vec) ==
    IF Len(vec) < 2 THEN vec
    ELSE LET front == dedup_by_id(SubSeq(vec, 1, Len(vec) - 1))
         IN  IF front[Len(front)].id = vec[Len(vec)].id THEN front
             ELSE Append(front, vec[Len(vec)])

\* device_list, had it dropped the devices that repeat an id
device_list_dedup(resp) ==
    IF ~resp.ok THEN resp
    ELSE Ok([result |-> dedup_by_id(sort_by_id(
                 [i \in 1..Len(resp.val.result) |-> UserDevice_from(resp.val.result[i])]
                     \o <<>>))])

\* device_list of the response of its request
device_list(resp) ==
    IF ~resp.ok THEN resp
    ELSE Ok([result |-> sort_by_id(
                 [i \in 1..Len(resp.val.result) |-> UserDevice_from(resp.val.result[i])]
                     \o <<>>)])

\* the fold of user_key_list over the first n users of the response: a user
\* whose key decodes is inserted under its id, replacing an earlier one
RECURSIVE key_map(_, _)
key_map(result, n) ==
    IF n = 0 THEN <<>>
    ELSE LET acc == key_map(result, n - 1)
             user == result[n]
             maybe_pub_key == PublicKey_new_from_slice(user.user_master_public_key.x,
                                                       user.user_master_public_key.y)
         IN  IF maybe_pub_key.ok
             THEN [id \in DOMAIN acc \cup {user.id} |->
                      IF id = user.id THEN maybe_pub_key.val ELSE acc[id]]
             ELSE acc

\* the first key of result that does not decode, as an error, if there is one
RECURSIVE first_bad_key(_, _)
first_bad_key(result, n) ==
    IF n > Len(result) THEN NoValue
    ELSE LET key == PublicKey_new_from_slice(result[n].user_master_public_key.x,
                                             result[n].user_master_public_key.y)
         IN  IF key.ok THEN first_bad_key(result, n + 1) ELSE key

\* user_key_list, had it returned the error of a key that does not decode
user_key_list_strict(resp) ==
    IF ~resp.ok THEN resp
    ELSE IF first_bad_key(resp.val.result, 1) # NoValue
    THEN first_bad_key(resp.val.result, 1)
    ELSE Ok(key_map(resp.val.result, Len(resp.val.result)))

\* user_key_list of the response of its request
user_key_list(resp) ==
    IF ~resp.ok THEN resp
    ELSE Ok(key_map(resp.val.result, Len(resp.val.result)))

WithKey_new(id, public_key) == [id |-> id, public_key |-> public_key]

\* get_user_keys, had it sent its request for an empty list of ids too
get_user_keys_always_asking(users, resp) ==
    LET listed == user_key_list(resp)
    IN  [requests |-> 1,
         out |-> IF ~listed.ok THEN listed
                 ELSE LET ids_with_keys == listed.val
                          left == SelectSeq(users,
                                      LAMBDA u : u \notin DOMAIN ids_with_keys)
                          found == SelectSeq(users,
                                      LAMBDA u : u \in DOMAIN ids_with_keys)
                      IN  Ok(<<left,
                               [i \in 1..Len(found) |->
                                   WithKey_new(found[i], ids_with_keys[found[i]])]
                                   \o <<>>>>)]

\* get_user_keys of the user ids and of the response user_key_list_request
\* would give; requests is how many requests were sent
get_user_keys(users, resp) ==
    IF users = <<>> THEN [requests |-> 0, out |-> Ok(<<<<>>, <<>>>>)]
    ELSE LET listed == user_key_list(resp)
         IN  [requests |-> 1,
              out |-> IF ~listed.ok THEN listed
                      ELSE LET ids_with_keys == listed.val
                               left == SelectSeq(users,
                                           LAMBDA u : u \notin DOMAIN ids_with_keys)
                               found == SelectSeq(users,
                                           LAMBDA u : u \in DOMAIN ids_with_keys)
                           IN  Ok(<<left,
                                    [i \in 1..Len(found) |->
                                        WithKey_new(found[i], ids_with_keys[found[i]])]
                                        \o <<>>>>)]

(***************************************************************************)
(* Callers of the list operations: each behaviour is one call, over one    *)
(* answer of the service                                                   *)
(***************************************************************************)
SeqsUpTo(S, n) == UNION {{f \o <<>> : f \in [1..m -> S]} : m \in 0..n}

\* ids on both sides of 2^16 and 2^32
ListedDeviceIds == {u64_of(1), u64_of(2), <<0, 0, 1, 0>>, <<0, 1, 0, 0>>}
DeviceListItems ==
    {[id |-> id, name |-> name, created |-> 1500, updated |-> 1600,
      is_current_device |-> FALSE] : id \in ListedDeviceIds, name \in DeviceNames}
DeviceListResponses ==
    {Ok([result |-> r]) : r \in SeqsUpTo(DeviceListItems, MaxDevices)}
        \cup {Err(RequestError)}

AskedUserIds == {<<97>>, <<98>>, <<99>>}
ListedUsers ==
    {[id |-> id, user_master_public_key |-> key] :
        id \in {<<97>>, <<98>>},
        key \in {compute_public_key(1), compute_public_key(2),
                 [compute_public_key(1) EXCEPT !.y = Coordinate(0)]}}
UserKeyListResponses ==
    {Ok([result |-> r]) : r \in SeqsUpTo(ListedUsers, MaxUsers)} \cup {Err(RequestError)}

InitLists ==
    /\ emk = NoValue
    /\ origin = [kind |-> "none", tampered |-> FALSE]
    /\ aev = NoValue
    /\ aevSrc = [kind |-> "none"]
    /\ backend = NoValue
    /\ calls = NoValue
    /\ log = NoValue
    /\ last = [op |-> "none"]

DeviceList ==
    /\ last.op = "none"
    /\ \E resp \in DeviceListResponses :
        last' = [op |-> "device_list", resp |-> resp, out |-> device_list(resp)]
    /\ UNCHANGED <<emk, origin, aev, aevSrc, backend, calls, log>>

GetUserKeys ==
    /\ last.op = "none"
    /\ \E users \in SeqsUpTo(AskedUserIds, MaxUsers), resp \in UserKeyListResponses :
        LET got == get_user_keys(users, resp)
        IN  last' = [op |-> "get_user_keys", users |-> users,
                     resp |-> IF got.requests = 0 THEN NoValue ELSE resp,
                     requests |-> got.requests, out |-> got.out]
    /\ UNCHANGED <<emk, origin, aev, aevSrc, backend, calls, log>>

NextLists ==
    \/ DeviceList
    \/ GetUserKeys

SpecLists == InitLists /\ [][NextLists]_vars

(***************************************************************************)
(* C19, C20: the list operations                                           *)
(***************************************************************************)
Count(seq, x) == Cardinality({i \in 1..Len(seq) : seq[i] = x})

\* C19: device_list returns the devices of the response, each as often as
\* the response holds it, in ascending order of their ids
C19_DeviceListSorted ==
    (last.op = "device_list" /\ last.resp.ok) =>
        LET given == last.resp.val.result
            asDevice(item) ==
                [id |-> item.id, name |-> item.name, created |-> item.created,
                 last_updated |-> item.updated,
                 is_current_device |-> item.is_current_device]
        IN  /\ last.out.ok
            /\ LET got == last.out.val.result
               IN  /\ Len(got) = Len(given)
                   /\ \A i \in 1..Len(given) :
                         Count(got, asDevice(given[i]))
                             = Cardinality({j \in 1..Len(given) : given[j] = given[i]})
                   /\ \A i, j \in 1..Len(got) :
                         i < j => ~u64_lt(got[j].id, got[i].id)

\* the response has three devices, the greatest id first, one id twice
C19_Witness ==
    /\ last.op = "device_list" /\ last.resp.ok /\ last.out.ok
    /\ Len(last.resp.val.result) = 3
    /\ u64_lt(last.resp.val.result[2].id, last.resp.val.result[1].id)
    /\ last.resp.val.result[2].id = last.resp.val.result[3].id
    /\ last.resp.val.result[2] # last.resp.val.result[3]
    /\ u64_lt(last.out.val.result[1].id, last.out.val.result[3].id)

\* C20: for a non-empty list of user ids and a response of the service,
\* get_user_keys returns (failed, succeeded): together they are as long as
\* the list and hold every id as often as the list does, no id is in both,
\* and an id is in succeeded exactly when the response holds it with a key
\* that decodes, and then with such a key of the response; a key that does
\* not decode fails nothing
C20_UserKeysPartition ==
    (last.op = "get_user_keys" /\ last.users # <<>> /\ last.resp.ok) =>
        LET given == last.resp.val.result
            Decodes(key) == /\ Len(key.x) = AES_KEY_LEN /\ Len(key.y) = AES_KEY_LEN
                            /\ \E k \in Scalars : key = compute_public_key(k)
            KeysOf(id) == {given[i].user_master_public_key :
                              i \in {j \in 1..Len(given) :
                                        /\ given[j].id = id
                                        /\ Decodes(given[j].user_master_public_key)}}
        IN  /\ last.out.ok
            /\ LET failed == last.out.val[1]
                   succeeded == last.out.val[2]
                   succeededIds == [i \in 1..Len(succeeded) |-> succeeded[i].id]
               IN  /\ Len(failed) + Len(succeeded) = Len(last.users)
                   /\ \A id \in AskedUserIds :
                         /\ Count(failed, id) + Count(succeededIds, id)
                               = Count(last.users, id)
                         /\ Count(failed, id) = 0 \/ Count(succeededIds, id) = 0
                         /\ Count(last.users, id) > 0 =>
                               (Count(succeededIds, id) > 0 <=> KeysOf(id) # {})
                   /\ \A i \in 1..Len(succeeded) :
                         succeeded[i].public_key \in KeysOf(succeeded[i].id)

\* one id of the list came back with a key that decodes, another only with
\* a key that does not
C20_Witness ==
    /\ last.op = "get_user_keys" /\ last.users # <<>> /\ last.resp.ok /\ last.out.ok
    /\ Len(last.resp.val.result) = 2
    /\ last.out.val[1] = <<<<98>>>>
    /\ Len(last.out.val[2]) = 1
    /\ last.out.val[2][1].id = <<97>>

(***************************************************************************)
(* C21: get_user_keys of no ids                                            *)
(***************************************************************************)
\* C21: get_user_keys of an empty list of user ids returns two empty lists
\* and sends no request
C21_EmptyNoRequest ==
    (last.op = "get_user_keys" /\ last.users = <<>>) =>
        /\ last.requests = 0
        /\ last.resp = NoValue
        /\ last.out = Ok(<<<<>>, <<>>>>)

\* get_user_keys was called with no ids
C21_Witness ==
    /\ last.op = "get_user_keys" /\ last.users = <<>>
    /\ last.out.ok /\ last.out.val[1] = <<>> /\ last.out.val[2] = <<>>

(***************************************************************************)
(* C29: what encrypt returns, written with bytes() and read with try_from  *)
(***************************************************************************)
\* the slice decoded last is bytes() of the value encrypt returned
DecodedOwnBytes ==
    /\ aev # NoValue
    /\ ~aevSrc.opened
    /\ last.op = "try_from"
    /\ last.bytes = AesEncryptedValue_bytes(aev)

\* C29: try_from of bytes() of a value encrypt returned succeeds with that
\* value, whatever the length of the plaintext, zero and one included
C29_EncryptedValueRoundTrip ==
    DecodedOwnBytes => last.out = Ok(aev)

\* the round trip of the values of plaintexts of two bytes and more
C29_RoundTripFromTwoBytes ==
    (DecodedOwnBytes /\ Len(aevSrc.plaintext) >= 2) => last.out = Ok(aev)

\* the value of a plaintext of one byte is refused
C29_OneByteRefused ==
    (DecodedOwnBytes /\ Len(aevSrc.plaintext) = 1)
        => last.out = Err([kind |-> "AesEncryptedDocSizeError"])

(***************************************************************************)
(* A caller that seals several values, one after another, from one random  *)
(* source.  log.rng is the source as the calls so far left it, log.made    *)
(* what each call sealed: under which key, with which salt and IV, and     *)
(* which bytes of the source the call drew (those after from, up to upto). *)
(***************************************************************************)
InitSeals ==
    /\ emk = NoValue
    /\ origin = [kind |-> "none", tampered |-> FALSE]
    /\ aev = NoValue
    /\ aevSrc = [kind |-> "none"]
    /\ backend = NoValue
    /\ calls = NoValue
    /\ last = [op |-> "none"]
    /\ \E rng \in Rngs : log = [rng |-> rng, made |-> <<>>]

SealValue ==
    /\ Len(log.made) < MaxSeals
    /\ \E plaintext \in Plaintexts, key \in Keys :
        LET out == encrypt(log.rng, plaintext, key)
            rng == rng_after(log.rng, AES_IV_LEN)
        IN  /\ last' = [op |-> "encrypt", out |-> out]
            /\ log' = [rng |-> rng,
                       made |-> Append(log.made,
                                   [op |-> "encrypt", key |-> key, salt |-> NoValue,
                                    aes_iv |-> out.val.aes_iv,
                                    from |-> log.rng.pos, upto |-> rng.pos])]
    /\ UNCHANGED <<emk, origin, aev, aevSrc, backend, calls>>

SealMasterKey ==
    /\ Len(log.made) < MaxSeals
    /\ \E password \in Passwords :
        LET out == encrypt_user_master_key(log.rng, password, Pattern(AES_KEY_LEN, 1))
            rng == rng_after(rng_after(log.rng, PBKDF2_SALT_LEN), AES_IV_LEN)
        IN  /\ last' = [op |-> "encrypt_user_master_key", out |-> out]
            /\ log' = [rng |-> rng,
                       made |-> Append(log.made,
                                   [op |-> "encrypt_user_master_key",
                                    key |-> derive_key_from_password(
                                                password, out.val.pbkdf2_salt),
                                    salt |-> out.val.pbkdf2_salt,
                                    aes_iv |-> out.val.aes_iv,
                                    from |-> log.rng.pos, upto |-> rng.pos])]
    /\ UNCHANGED <<emk, origin, aev, aevSrc, backend, calls>>

NextSeals ==
    \/ SealValue
    \/ SealMasterKey

SpecSeals == InitSeals /\ [][NextSeals]_vars

(***************************************************************************)
(* C27: salts and IVs                                                      *)
(***************************************************************************)
\* bytes from + 1 .. from + n of the source of this behaviour
Drawn(from, n) == fill_bytes([seed |-> log.rng.seed, pos |-> from], n)

\* C27: every call of encrypt draws its IV, and every call of
\* encrypt_user_master_key its salt and then its IV, from bytes of the
\* random source that no earlier call drew; when the source never repeats
\* what it hands out, no two calls share a salt, and no two values sealed
\* under the same key share an IV
C27_FreshSaltAndIv ==
    (last.op \in {"encrypt", "encrypt_user_master_key"} /\ log.rng.seed # 0) =>
        /\ \A i \in 1..Len(log.made) :
              LET m == log.made[i]
              IN  /\ m.from = IF i = 1 THEN 0 ELSE log.made[i - 1].upto
                  /\ IF m.op = "encrypt"
                     THEN /\ m.aes_iv = Drawn(m.from, AES_IV_LEN)
                          /\ m.upto = m.from + AES_IV_LEN
                     ELSE /\ m.salt = Drawn(m.from, PBKDF2_SALT_LEN)
                          /\ m.aes_iv = Drawn(m.from + PBKDF2_SALT_LEN, AES_IV_LEN)
                          /\ m.upto = m.from + PBKDF2_SALT_LEN + AES_IV_LEN
        /\ \A i, j \in 1..Len(log.made) :
              i < j =>
                  /\ (log.made[i].salt # NoValue => log.made[i].salt # log.made[j].salt)
                  /\ log.made[i].key = log.made[j].key
                         => log.made[i].aes_iv # log.made[j].aes_iv

\* three values sealed, two of them by encrypt under the same key
C27_Witness ==
    /\ log.rng.seed # 0
    /\ Len(log.made) = 3
    /\ \E i, j \in 1..3 :
          /\ i < j
          /\ log.made[i].op = "encrypt" /\ log.made[j].op = "encrypt"
          /\ log.made[i].key = log.made[j].key
          /\ log.made[i].aes_iv # log.made[j].aes_iv
    /\ \E i \in 1..3 : log.made[i].op = "encrypt_user_master_key"

(***************************************************************************)
(* C23: what the update request of a rotation carries                      *)
(***************************************************************************)
\* C23: the update request of a call of user_rotate_private_key carries the
\* user id and the key id that get_curr_user answered to this call, the
\* factor the augment step returned, and a sealed key that opens under the
\* password of the call to the augmented key, which is not the old key
C23_UpdateRequest ==
    \A c \in Clients :
        (calls[c].pc # "idle" /\ calls[c].req # NoValue) =>
            LET call == calls[c]
                old == PrivateKey_from(
                           decrypt_user_master_key(call.password,
                               new_from_slice(call.fetched.user_private_key).val).val)
                aug == augment_private_key_with_retry(old, call.factors)
                sent == new_from_slice(call.req.new_encrypted_priv_key)
            IN  /\ call.sent = 1
                /\ call.req.user_id = call.fetched.id
                /\ call.req.curr_key_id = call.fetched.current_key_id
                /\ aug.ok
                /\ call.req.aug_factor = aug.val.aug_factor
                /\ aug.val.new_priv_key # old
                /\ sent.ok
                /\ decrypt_user_master_key(call.password, sent.val)
                      = Ok(PrivateKey_as_bytes(aug.val.new_priv_key))

\* a call sent its update after another client's update was accepted, so
\* the key id it carries is not the first one, and its first factor was
\* not usable
C23_Witness ==
    \E c \in Clients :
        /\ calls[c].pc = "update_private_key"
        /\ calls[c].req.curr_key_id = 2
        /\ calls[c].factors[1] = 0
        /\ calls[c].req.aug_factor = calls[c].factors[2]

(***************************************************************************)
(* C30: the sealed key the service stores, over creation and rotations     *)
(***************************************************************************)
\* generate_device_key, called now with the user's password
DeviceKeyNow ==
    generate_device_key(requests_user_verify(backend), TheJwt, ThePassword, 1500,
                        [signing |-> 1, device |-> 1]).out
\* user_rotate_private_key, called now with the user's password, up to its
\* update request
RotateNow ==
    user_rotate_private_key(get_curr_user(backend).val, ThePassword,
                            [seed |-> 1, pos |-> 0], <<1, 2>>)
SealedKeyErrors == {"AesError", "WrongSizeError"}

\* C30: after user_create with password P and any calls of
\* user_rotate_private_key by two clients, the stored sealed key is 92 bytes
\* that open under P to a private key which, moved back by the factors the
\* service has accepted, has the stored public key; no call of
\* user_rotate_private_key with P has failed with AesError or
\* WrongSizeError, and neither would generate_device_key or
\* user_rotate_private_key called now with P
C30_StoredKeyOpens ==
    LET parsed == new_from_slice(backend.sealed)
        opened == decrypt_user_master_key(ThePassword, parsed.val)
    IN  /\ Len(backend.sealed) = 92
        /\ parsed.ok
        /\ opened.ok
        /\ PrivateKey_from(opened.val) \in PrivateKeys
        /\ compute_public_key((PrivateKey_from(opened.val) + backend.aug_total)
                                  % NumScalars) = backend.public_key
        /\ \A c \in Clients :
              (calls[c].pc = "done" /\ calls[c].password = ThePassword
                    /\ ~calls[c].out.ok)
                 => calls[c].out.err.kind \notin SealedKeyErrors
        /\ DeviceKeyNow.ok
        /\ RotateNow.ok \/ RotateNow.err.kind \notin SealedKeyErrors

\* two rotations were accepted, one of each client, and a third call with
\* the password would go through
C30_Witness ==
    /\ Len(log.accepted) = 2
    /\ backend.key_id = 3
    /\ backend.sealed # log.created.sealed
    /\ \A c \in Clients : calls[c].pc = "done" /\ calls[c].out.ok
    /\ RotateNow.ok
    /\ DeviceKeyNow.ok

(***************************************************************************)
(* C24: what is signed when a device is added                              *)
(***************************************************************************)
\* the requests to add a device that have been sent
DeviceAddsSent == {i \in DOMAIN log.requests : log.requests[i].op = "user_device_add"}

\* C24: the message signed for a device is the decimal digits of the
\* milliseconds of the caller's timestamp, then the bytes of the transform
\* key, then the bytes of the Jwt, then the bytes of the user's public key;
\* the transform key goes from the user's master private key to the public
\* key of the device key pair drawn in the same call, and the signature is
\* made with the user's master key pair
C24_SignedMessage ==
    \A i \in DeviceAddsSent :
        LET call == calls[log.requests[i].client]
            sent == log.requests[i].device_add
            master == KeyPair_new(compute_public_key(log.master), log.master)
        IN  /\ sent.signature.message
                  = to_string(call.signing_ts)
                        \o (sent.transform_key.to_public.x \o sent.transform_key.to_public.y
                               \o <<sent.transform_key.blinded,
                                    sent.transform_key.signed_by>>)
                        \o TheJwt
                        \o (master.public_key.x \o master.public_key.y)
            /\ sent.signature_ts = call.signing_ts
            /\ sent.device_keys.private_key \in call.drew.device
            /\ sent.device_keys.public_key
                  = compute_public_key(sent.device_keys.private_key)
            /\ sent.transform_key
                  = generate_transform_key(master.private_key,
                                           sent.device_keys.public_key, sent.signing_keys)
            /\ sent.signature.with = master.private_key
            /\ sent.signature.signer = master.public_key
            /\ sent.user_public_key = master.public_key

\* both clients sent a device: the messages begin with 999 and with 1500
C24_Witness ==
    \E i, j \in DeviceAddsSent :
        /\ SubSeq(log.requests[i].device_add.signature.message, 1, 3) = <<57, 57, 57>>
        /\ log.requests[i].device_add.signature.message[4]
              = log.requests[i].device_add.device_keys.public_key.x[1]
        /\ SubSeq(log.requests[j].device_add.signature.message, 1, 4) = <<49, 53, 48, 48>>

(***************************************************************************)
(* C28: a second call after one that did not finish                        *)
(***************************************************************************)
\* the key material of a DeviceAdd
KeyMaterial(device_add) ==
    [device_private |-> device_add.device_keys.private_key,
     device_public |-> device_add.device_keys.public_key,
     signing_secret |-> device_add.signing_keys.secret,
     signing_public |-> device_add.signing_keys.public,
     transform_key |-> device_add.transform_key,
     signature |-> device_add.signature]

\* C28: a call of generate_device_key made after another call has made its
\* DeviceAdd, whether that call failed, was given up or went through, makes
\* a device key pair, a signing key pair, a transform key and a signature of
\* its own: each add-device request carries keys drawn in the call that
\* sent it, and no two requests share any of them
C28_KeysOfThisCall ==
    /\ \A i \in DeviceAddsSent :
          LET call == calls[log.requests[i].client]
              sent == log.requests[i].device_add
          IN  /\ sent.device_keys.private_key \in call.drew.device
              /\ sent.device_keys.private_key \notin call.draws_before
              /\ sent.signing_keys.secret \in call.drew.signing
    /\ \A i, j \in DeviceAddsSent :
          i < j =>
              LET a == KeyMaterial(log.requests[i].device_add)
                  b == KeyMaterial(log.requests[j].device_add)
              IN  \A f \in DOMAIN a : a[f] # b[f]

\* the first call's request failed, or the call was left waiting for its
\* answer, and another call was made afterwards and sent its request
C28_Witness ==
    /\ Len(log.requests) = 2
    /\ LET first == calls[log.requests[1].client]
       IN  \/ first.pc = "done" /\ ~first.out.ok
           \/ first.pc = "user_device_add"
    /\ log.requests[1].device_add.device_keys.private_key
          \in calls[log.requests[2].client].draws_before

(***************************************************************************)
(* The remaining user operations: user_create, and the callers' side of    *)
(* device_list, device_delete and user_key_list                            *)
(***************************************************************************)
\* what the service answers to a request it refuses
Refused(code) == [kind |-> "RequestError", code |-> code]

\* POST users: the service creates the user of the Jwt unless it has one
requests_user_create(b, jwt, req) ==
    IF b # NoValue THEN [backend |-> b, resp |-> Err(Refused("user_exists"))]
    ELSE [backend |-> [id |-> <<97>>, segment_id |-> 1,
                       public_key |-> req.user_public_key,
                       sealed |-> req.encrypted_priv_key,
                       key_id |-> 1, aug_total |-> 0,
                       needs_rotation |-> req.needs_rotation, devices |-> <<>>],
          resp |-> Ok([id |-> <<97>>, segment_id |-> 1,
                       user_master_public_key |-> req.user_public_key,
                       user_private_key |-> req.encrypted_priv_key,
                       needs_rotation |-> req.needs_rotation])]

\* TryFrom<UserCreateResponse> for UserCreateResult: the public key of the
\* response is decoded
UserCreateResult_try_from(resp) ==
    LET key == PublicKey_new_from_slice(resp.user_master_public_key.x,
                                        resp.user_master_public_key.y)
    IN  IF ~key.ok THEN key
        ELSE Ok([user_public_key |-> key.val, needs_rotation |-> resp.needs_rotation])

\* user_create up to its request: draw is what the random source hands to
\* generate_key_pair, rng the source of the sealing
user_create(jwt, passphrase, needs_rotation, draw, rng) ==
    LET made == generate_key_pair(draw)
    IN  IF ~made.ok THEN Err(From_RecryptErr(made.err))
        ELSE LET sealed == encrypt_user_master_key(rng, passphrase,
                               PrivateKey_as_bytes(made.val.private_key))
             IN  IF ~sealed.ok THEN sealed
                 ELSE Ok([jwt |-> jwt,
                          user_public_key |-> made.val.public_key,
                          encrypted_priv_key |-> EncryptedMasterKey_bytes(sealed.val),
                          needs_rotation |-> needs_rotation])

\* user_create after its request: .await?.try_into()
user_create_returned(resp) ==
    IF ~resp.ok THEN resp ELSE UserCreateResult_try_from(resp.val)

\* GET users/devices
requests_device_list(b) ==
    Ok([result |-> [i \in 1..Len(b.devices) |->
                       [id |-> b.devices[i].id, name |-> b.devices[i].name,
                        created |-> b.devices[i].created,
                        updated |-> b.devices[i].updated,
                        is_current_device |-> i = 1]] \o <<>>])

\* DELETE users/devices/{id}, or users/devices/current when no id is given:
\* the caller's own device is the first one
requests_device_delete(b, device_id) ==
    LET id == IF device_id = None
              THEN (IF b.devices = <<>> THEN NoValue ELSE b.devices[1].id)
              ELSE device_id.some
        kept == SelectSeq(b.devices, LAMBDA d : d.id # id)
    IN  IF kept = b.devices
        THEN [backend |-> b, resp |-> Err(Refused("no_such_device"))]
        ELSE [backend |-> [b EXCEPT !.devices = kept], resp |-> Ok([id |-> id])]

\* device_delete of the response of its request: .map(|resp| resp.id)
device_delete(resp) == IF ~resp.ok THEN resp ELSE Ok(resp.val.id)

\* GET users: the users of the asked ids that exist
requests_user_key_list(b, user_ids) ==
    Ok([result |-> IF \E i \in DOMAIN user_ids : user_ids[i] = b.id
                   THEN <<[id |-> b.id, user_master_public_key |-> b.public_key]>>
                   ELSE <<>>])

(***************************************************************************)
(* One caller and one call of any of the user operations, on a service     *)
(* that has no user yet or has one; the sealed key it holds for the user   *)
(* may be damaged.  log.created is the record at the start, log.shape how  *)
(* its sealed key is damaged.                                              *)
(***************************************************************************)
Callers == {"c1"}
SealedShapes == {"sound", "corrupt_sealed", "short_sealed", "long_sealed"}
FirstSealedKeyByte == PBKDF2_SALT_LEN + AES_IV_LEN + 1
ShapedSealed(user, shape) ==
    CASE shape = "sound" -> user
      [] shape = "corrupt_sealed" ->
            [user EXCEPT !.sealed[FirstSealedKeyByte] = FlipBit(@, 0)]
      [] shape = "short_sealed" -> [user EXCEPT !.sealed = Tail(@)]
      [] shape = "long_sealed" -> [user EXCEPT !.sealed = Append(@, 0)]

\* devices the user added earlier
OldDevices ==
    [i \in 1..2 |-> [id |-> u64_of(i), name |-> Some(<<100>>),
                     created |-> 100 * i, updated |-> 100 * i]] \o <<>>
DeleteIds == {None, Some(u64_of(1)), Some(u64_of(2)), Some(u64_of(9))}
KeyListAsks == SeqsUpTo({<<97>>, <<98>>}, 2)

InitCalls ==
    /\ emk = NoValue
    /\ origin = [kind |-> "none", tampered |-> FALSE]
    /\ aev = NoValue
    /\ aevSrc = [kind |-> "none"]
    /\ last = [op |-> "none"]
    /\ \E user \in {NoValue} \cup
                   {[ShapedSealed(CreatedUser(k, [seed |-> 1, pos |-> 0]), shape)
                        EXCEPT !.devices = devices] :
                       k \in PrivateKeys, shape \in SealedShapes,
                       devices \in {<<>>, OldDevices}} :
        /\ backend = user
        /\ log = [accepted |-> <<>>, created |-> user, requests |-> <<>>,
                  signing_draws |-> {},
                  device_draws |->
                      IF user = NoValue THEN {}
                      ELSE {k \in PrivateKeys : compute_public_key(k) = user.public_key},
                  master |->
                      IF user = NoValue THEN 0
                      ELSE CHOOSE k \in PrivateKeys :
                               compute_public_key(k) = user.public_key,
                  shape |->
                      IF user = NoValue THEN "none"
                      ELSE CHOOSE shape \in SealedShapes :
                               \E k \in PrivateKeys :
                                   user.sealed = ShapedSealed(
                                       CreatedUser(k, [seed |-> 1, pos |-> 0]),
                                       shape).sealed]
    /\ calls = [c \in Clients |-> Idle]

\* a client calls user_create: it makes and seals the key pair and sends
\* the request, or returns the error of making them
CreateCall(c) ==
    /\ calls[c].pc = "idle"
    /\ \E draw \in Scalars, passphrase \in RotatePasswords, needs_rotation \in BOOLEAN :
        LET made == user_create(TheJwt, passphrase, needs_rotation, draw,
                                [seed |-> 1, pos |-> 0])
        IN  calls' = [calls EXCEPT ![c] =
                        [op |-> "user_create",
                         pc |-> IF made.ok THEN "user_create" ELSE "done",
                         asked |-> IF made.ok THEN <<"user_create">> ELSE <<>>,
                         failed |-> NoValue,
                         password |-> passphrase, needs_rotation |-> needs_rotation,
                         draw |-> draw,
                         req |-> IF made.ok THEN made.val ELSE NoValue,
                         out |-> IF made.ok THEN NoValue ELSE made]]
    /\ UNCHANGED <<emk, origin, aev, aevSrc, last, backend, log>>

\* the request of user_create fails before the service has seen it
CreateFails(c) ==
    /\ calls[c].op = "user_create" /\ calls[c].pc = "user_create"
    /\ calls' = [calls EXCEPT ![c] =
                    [Failed(@, "user_create", RequestError)
                        EXCEPT !.pc = "done",
                               !.out = user_create_returned(Err(RequestError))]]
    /\ UNCHANGED <<emk, origin, aev, aevSrc, last, backend, log>>

\* the service creates the user or refuses, and the client returns
Created(c) ==
    /\ calls[c].op = "user_create" /\ calls[c].pc = "user_create"
    /\ LET done == requests_user_create(backend, TheJwt, calls[c].req)
       IN  /\ backend' = done.backend
           /\ calls' = [calls EXCEPT ![c] =
                    [(IF done.resp.ok THEN @
                      ELSE Failed(@, "user_create", done.resp.err))
                        EXCEPT !.pc = "done", !.out = user_create_returned(done.resp)]]
    /\ UNCHANGED <<emk, origin, aev, aevSrc, last, log>>

\* a client calls device_list
ListCall(c) ==
    /\ calls[c].pc = "idle"
    /\ backend # NoValue
    /\ calls' = [calls EXCEPT ![c] =
                    [op |-> "device_list", pc |-> "device_list",
                     asked |-> <<"device_list">>, failed |-> NoValue, out |-> NoValue]]
    /\ UNCHANGED <<emk, origin, aev, aevSrc, last, backend, log>>

\* the request of device_list fails, or is answered
ListReturned(c) ==
    /\ calls[c].op = "device_list" /\ calls[c].pc = "device_list"
    /\ \E resp \in {Err(RequestError), requests_device_list(backend)} :
        calls' = [calls EXCEPT ![c] =
                    [(IF resp.ok THEN @ ELSE Failed(@, "device_list", resp.err))
                        EXCEPT !.pc = "done", !.out = device_list(resp)]]
    /\ UNCHANGED <<emk, origin, aev, aevSrc, last, backend, log>>

\* a client calls device_delete, for a device or for its own
DeleteCall(c) ==
    /\ calls[c].pc = "idle"
    /\ backend # NoValue
    /\ \E device_id \in DeleteIds :
        calls' = [calls EXCEPT ![c] =
                    [op |-> "device_delete", pc |-> "device_delete",
                     asked |-> <<"device_delete">>, failed |-> NoValue,
                     device_id |-> device_id, out |-> NoValue]]
    /\ UNCHANGED <<emk, origin, aev, aevSrc, last, backend, log>>

\* the request of device_delete fails before the service has seen it
DeleteFails(c) ==
    /\ calls[c].op = "device_delete" /\ calls[c].pc = "device_delete"
    /\ calls' = [calls EXCEPT ![c] =
                    [Failed(@, "device_delete", RequestError)
                        EXCEPT !.pc = "done", !.out = device_delete(Err(RequestError))]]
    /\ UNCHANGED <<emk, origin, aev, aevSrc, last, backend, log>>

\* the service deletes the device or refuses, and the client returns
Deleted(c) ==
    /\ calls[c].op = "device_delete" /\ calls[c].pc = "device_delete"
    /\ LET done == requests_device_delete(backend, calls[c].device_id)
       IN  /\ backend' = done.backend
           /\ calls' = [calls EXCEPT ![c] =
                    [(IF done.resp.ok THEN @
                      ELSE Failed(@, "device_delete", done.resp.err))
                        EXCEPT !.pc = "done", !.out = device_delete(done.resp)]]
    /\ UNCHANGED <<emk, origin, aev, aevSrc, last, log>>

\* a client calls user_key_list
KeyListCall(c) ==
    /\ calls[c].pc = "idle"
    /\ backend # NoValue
    /\ \E user_ids \in KeyListAsks :
        calls' = [calls EXCEPT ![c] =
                    [op |-> "user_key_list", pc |-> "user_key_list",
                     asked |-> <<"user_key_list">>, failed |-> NoValue,
                     user_ids |-> user_ids, out |-> NoValue]]
    /\ UNCHANGED <<emk, origin, aev, aevSrc, last, backend, log>>

\* the request of user_key_list fails, or is answered
KeyListReturned(c) ==
    /\ calls[c].op = "user_key_list" /\ calls[c].pc = "user_key_list"
    /\ \E resp \in {Err(RequestError),
                    requests_user_key_list(backend, calls[c].user_ids)} :
        calls' = [calls EXCEPT ![c] =
                    [(IF resp.ok THEN @ ELSE Failed(@, "user_key_list", resp.err))
                        EXCEPT !.pc = "done", !.out = user_key_list(resp)]]
    /\ UNCHANGED <<emk, origin, aev, aevSrc, last, backend, log>>

NextCalls ==
    \/ \E c \in Callers : CreateCall(c)
    \/ \E c \in Callers : CreateFails(c)
    \/ \E c \in Callers : Created(c)
    \/ \E c \in Callers : VerifyCall(c)
    \/ \E c \in Callers : VerifyReturned(c)
    \/ \E c \in Callers : RotateCall(c)
    \/ \E c \in Callers : RotateGetFails(c)
    \/ \E c \in Callers : RotateGotUser(c)
    \/ \E c \in Callers : RotateUpdateFails(c)
    \/ \E c \in Callers : RotateUpdated(c)
    \/ \E c \in Callers : DeviceCall(c)
    \/ \E c \in Callers : DeviceVerified(c)
    \/ \E c \in Callers : DeviceAddFails(c)
    \/ \E c \in Callers : DeviceAdded(c)
    \/ \E c \in Callers : ListCall(c)
    \/ \E c \in Callers : ListReturned(c)
    \/ \E c \in Callers : DeleteCall(c)
    \/ \E c \in Callers : DeleteFails(c)
    \/ \E c \in Callers : Deleted(c)
    \/ \E c \in Callers : KeyListCall(c)
    \/ \E c \in Callers : KeyListReturned(c)

SpecCalls == InitCalls /\ [][NextCalls]_vars

(***************************************************************************)
(* C22: user_create                                                        *)
(***************************************************************************)
CreateCalls == {c \in Callers : calls[c].op = "user_create"}

\* C22: when recrypt fails to make the key pair, user_create returns
\* KeyGenerationError, sends no request and leaves the service as it was;
\* when the key pair is made and sealed, it sends one create request, which
\* carries the public key and the private key sealed under the passphrase;
\* an error of that request, the service's refusal included, is returned as
\* it is, and an accepted request returns the public key and the flag
C22_UserCreate ==
    \A c \in CreateCalls :
        LET call == calls[c]
        IN  IF call.draw = 0
            THEN /\ call.pc = "done"
                 /\ call.out = Err([kind |-> "KeyGenerationError"])
                 /\ call.asked = <<>>
                 /\ call.req = NoValue
                 /\ backend = log.created
            ELSE /\ call.asked = <<"user_create">>
                 /\ call.req.user_public_key = compute_public_key(call.draw)
                 /\ call.req.needs_rotation = call.needs_rotation
                 /\ decrypt_user_master_key(call.password,
                        new_from_slice(call.req.encrypted_priv_key).val)
                       = Ok(PrivateKey_as_bytes(call.draw))
                 /\ call.pc = "done" =>
                       IF call.failed # NoValue
                       THEN /\ call.out = Err(call.failed.err)
                            /\ backend = log.created
                       ELSE /\ call.out = Ok([user_public_key |->
                                                  compute_public_key(call.draw),
                                              needs_rotation |-> call.needs_rotation])
                            /\ log.created = NoValue
                            /\ backend.public_key = compute_public_key(call.draw)
                            /\ backend.sealed = call.req.encrypted_priv_key
                            /\ (call.password = ThePassword /\ call.needs_rotation)
                                  => backend = CreatedUser(call.draw,
                                                           [seed |-> 1, pos |-> 0])

\* the service refused the create request of a user it has already, and
\* the call returned the refusal
C22_Witness ==
    \E c \in CreateCalls :
        /\ calls[c].pc = "done"
        /\ calls[c].asked = <<"user_create">>
        /\ calls[c].failed = [request |-> "user_create", err |-> Refused("user_exists")]
        /\ calls[c].out = Err(Refused("user_exists"))

(***************************************************************************)
(* C25: a wrong password or a damaged sealed key                           *)
(***************************************************************************)
\* the error of opening the sealed key the service holds
SealedKeyError ==
    IF log.shape \in {"short_sealed", "long_sealed"} THEN "WrongSizeError" ELSE "AesError"

\* C25: when the password is wrong, or the sealed key the service hands out
\* is corrupted or not 92 bytes long, user_rotate_private_key and
\* generate_device_key, once their read request is answered, have failed
\* with WrongSizeError for the wrong size and with AesError otherwise; they
\* have sent no update and no add-device request, and the service holds
\* what it held before
C25_NoWriteAfterSealedKeyError ==
    \A c \in Callers :
        LET call == calls[c]
            read == IF call.op = "user_rotate_private_key" THEN call.fetched # NoValue
                    ELSE IF call.op = "generate_device_key"
                    THEN call.reported # NoValue /\ call.reported.ok
                            /\ call.reported.val # None
                    ELSE FALSE
        IN  (read /\ (call.password # ThePassword \/ log.shape # "sound")) =>
                /\ call.pc = "done"
                /\ ~call.out.ok
                /\ call.out.err.kind = SealedKeyError
                /\ Len(call.asked) = 1
                /\ call.req = NoValue
                /\ log.requests = <<>>
                /\ log.accepted = <<>>
                /\ backend = log.created

\* a rotation with the right password was handed a sealed key of 93 bytes
C25_Witness ==
    \E c \in Callers :
        /\ calls[c].op = "user_rotate_private_key"
        /\ calls[c].pc = "done"
        /\ calls[c].password = ThePassword
        /\ calls[c].fetched # NoValue
        /\ Len(calls[c].fetched.user_private_key) = 93
        /\ ~calls[c].out.ok
        /\ calls[c].out.err.kind = "WrongSizeError"
        /\ calls[c].asked = <<"get_curr_user">>

(***************************************************************************)
(* C26: no operation asks twice                                            *)
(***************************************************************************)
\* the requests each operation may send, in the order it sends them
RequestsOf(op) ==
    CASE op = "user_create" -> <<"user_create">>
      [] op = "user_verify" -> <<"user_verify">>
      [] op = "user_rotate_private_key" -> <<"get_curr_user", "update_private_key">>
      [] op = "generate_device_key" -> <<"user_verify", "user_device_add">>
      [] op = "device_list" -> <<"device_list">>
      [] op = "device_delete" -> <<"device_delete">>
      [] op = "user_key_list" -> <<"user_key_list">>

\* C26: a call of user_create, user_verify, user_rotate_private_key,
\* generate_device_key, device_list, device_delete or user_key_list sends
\* each of its requests at most once, in order; when a request has failed,
\* the call has returned the error of that request and the failed request
\* is the last one the call sent
C26_NoRetry ==
    \A c \in Callers :
        calls[c].pc # "idle" =>
            LET call == calls[c]
                may == RequestsOf(call.op)
            IN  /\ Len(call.asked) <= Len(may)
                /\ call.asked = SubSeq(may, 1, Len(call.asked))
                /\ call.failed # NoValue =>
                      /\ call.pc = "done"
                      /\ call.out = Err(call.failed.err)
                      /\ call.asked # <<>>
                      /\ call.asked[Len(call.asked)] = call.failed.request

\* the update request of a rotation failed, and the call returned
C26_Witness ==
    \E c \in Callers :
        /\ calls[c].op = "user_rotate_private_key"
        /\ calls[c].pc = "done"
        /\ calls[c].asked = <<"get_curr_user", "update_private_key">>
        /\ calls[c].failed = [request |-> "update_private_key", err |-> RequestError]
        /\ calls[c].out = Err(RequestError)

====
